---- MODULE Spec2Model ----
(***************************************************************************)
(* Crypto TGE monitor: the ingestion / dedup / scoring pipeline of         *)
(* news_scraper.py, twitter_monitor.py and utils.py, driven by             *)
(* CryptoTGEMonitor.run_monitoring_cycle of main.py.                       *)
(*                                                                         *)
(* Text is a sequence of one-character strings, so that substring          *)
(* matching, lower-casing and sanitising are computed as the code does.    *)
(* Scores are integers in units of 1/10000 (10000 is 1.0).  Time is in     *)
(* whole hours.  A datetime is a record [kind, t]: kind "aware" is a       *)
(* timezone-aware instant, "naive" a reading without tzinfo, "str" the     *)
(* text json.dump(default=str) leaves behind, "none" is None.              *)
(***************************************************************************)
EXTENDS Integers, Sequences, FiniteSets, TLC

(* ------------------------------------------------------------------ *)
(* config.py: tracked companies and trigger keywords (a sub-list of    *)
(* each), the Twitter keyword weight table and the urgency words.      *)
(* ------------------------------------------------------------------ *)
C_Corn == <<"C", "o", "r", "n">>
C_XAI == <<"X", "A", "I">>
K_TGE == <<"T", "G", "E">>
K_airdrop == <<"a", "i", "r", "d", "r", "o", "p">>
K_ICO == <<"I", "C", "O">>
K_token_release == <<"t", "o", "k", "e", "n", " ", "r", "e", "l", "e", "a", "s", "e">>
K_token_minting == <<"t", "o", "k", "e", "n", " ", "m", "i", "n", "t", "i", "n", "g">>
W_tge == <<"t", "g", "e">>
W_token_generation_event == <<"t", "o", "k", "e", "n", " ", "g", "e", "n", "e", "r", "a", "t", "i", "o", "n", " ", "e", "v", "e", "n", "t">>
W_token_launch == <<"t", "o", "k", "e", "n", " ", "l", "a", "u", "n", "c", "h">>
W_airdrop == <<"a", "i", "r", "d", "r", "o", "p">>
W_token_sale == <<"t", "o", "k", "e", "n", " ", "s", "a", "l", "e">>
W_ico == <<"i", "c", "o">>
W_ido == <<"i", "d", "o">>
W_token_listing == <<"t", "o", "k", "e", "n", " ", "l", "i", "s", "t", "i", "n", "g">>
W_token_distribution == <<"t", "o", "k", "e", "n", " ", "d", "i", "s", "t", "r", "i", "b", "u", "t", "i", "o", "n">>
U_announce == <<"a", "n", "n", "o", "u", "n", "c", "e">>
U_launch == <<"l", "a", "u", "n", "c", "h">>
U_release == <<"r", "e", "l", "e", "a", "s", "e">>
U_coming == <<"c", "o", "m", "i", "n", "g">>
U_soon == <<"s", "o", "o", "n">>
U_date == <<"d", "a", "t", "e">>
U_schedule == <<"s", "c", "h", "e", "d", "u", "l", "e">>
U_tomorrow == <<"t", "o", "m", "o", "r", "r", "o", "w">>
U_today == <<"t", "o", "d", "a", "y">>

COMPANIES == <<C_Corn, C_XAI>>

TGE_KEYWORDS == <<K_TGE, K_airdrop, K_ICO, K_token_release, K_token_minting>>

urgency_words == <<U_announce, U_launch, U_release, U_coming, U_soon, U_date,
                   U_schedule, U_tomorrow, U_today>>

(* ------------------------------------------------------------------ *)
(* Input texts of the bounded upstream catalogues.                     *)
(* ------------------------------------------------------------------ *)
Raw_CornTGE == <<"C", "o", "r", "n", " ", "T", "G", "E", " ", "t", "o", "d", "a", "y">>
Raw_XaiAirdrop == <<"X", "A", "I", " ", "a", "i", "r", "d", "r", "o", "p">>
Raw_XaiAirdropWs == <<" ", "X", "A", "I", " ", " ", "a", "i", "r", "d", "r", "o", "p", "\n">>
Raw_Unicorn == <<"u", "n", "i", "c", "o", "r", "n">>
Raw_AirdropSoon == <<"a", "i", "r", "d", "r", "o", "p", " ", "s", "o", "o", "n">>
Raw_Hello == <<"h", "e", "l", "l", "o">>
Raw_CornMinting == <<"C", "o", "r", "n", " ", "t", "o", "k", "e", "n", " ", "m", "i", "n", "t", "i", "n", "g">>
Ttl_CornTGE == <<"C", "o", "r", "n", " ", "T", "G", "E">>
Sum_Launch == <<"l", "a", "u", "n", "c", "h", " ", "t", "o", "d", "a", "y">>
Ttl_Airdrop == <<"a", "i", "r", "d", "r", "o", "p">>
Ttl_Xai == <<"X", "A", "I">>
Ttl_Hello == <<"h", "e", "l", "l", "o">>
Sum_Empty == <<>>

(* ------------------------------------------------------------------ *)
(* Characters.                                                         *)
(* ------------------------------------------------------------------ *)
UPPER == <<"A","B","C","D","E","F","G","H","I","J","K","L","M",
           "N","O","P","Q","R","S","T","U","V","W","X","Y","Z">>

LOWER == <<"a","b","c","d","e","f","g","h","i","j","k","l","m",
           "n","o","p","q","r","s","t","u","v","w","x","y","z">>

DIGITS == <<"0","1","2","3","4","5","6","7","8","9">>

IndexOf(seq, c) == IF \E i \in 1..Len(seq) : seq[i] = c
                   THEN CHOOSE i \in 1..Len(seq) : seq[i] = c
                   ELSE 0

\* ord(c) for the characters the catalogues use
Ord(c) == IF IndexOf(LOWER, c) > 0 THEN 96 + IndexOf(LOWER, c)
          ELSE IF IndexOf(UPPER, c) > 0 THEN 64 + IndexOf(UPPER, c)
          ELSE IF IndexOf(DIGITS, c) > 0 THEN 47 + IndexOf(DIGITS, c)
          ELSE IF c = " " THEN 32
          ELSE IF c = "\n" THEN 10
          ELSE IF c = "\t" THEN 9
          ELSE 46

\* str.lower()
LowerChar(c) == IF IndexOf(UPPER, c) > 0 THEN LOWER[IndexOf(UPPER, c)] ELSE c

Lower(s) == [i \in 1..Len(s) |-> LowerChar(s[i])]

\* Python's `pat in hay` on strings
Contains(hay, pat) ==
    \E i \in 0..(Len(hay) - Len(pat)) : \A j \in 1..Len(pat) : hay[i + j] = pat[j]

Min(a, b) == IF a <= b THEN a ELSE b

(* ------------------------------------------------------------------ *)
(* utils.py                                                            *)
(* ------------------------------------------------------------------ *)
ControlChars == {"\n", "\t"}

RECURSIVE CollapseWs(_)
\* re.sub(r'\s+', ' ', text): every run of blanks becomes one blank
CollapseWs(s) ==
    IF Len(s) <= 1 THEN s
    ELSE IF s[1] = " " /\ s[2] = " " THEN CollapseWs(Tail(s))
    ELSE <<s[1]>> \o CollapseWs(Tail(s))

RECURSIVE StripLeft(_)
StripLeft(s) == IF Len(s) > 0 /\ s[1] = " " THEN StripLeft(Tail(s)) ELSE s

RECURSIVE StripRight(_)
StripRight(s) == IF Len(s) > 0 /\ s[Len(s)] = " "
                 THEN StripRight(SubSeq(s, 1, Len(s) - 1)) ELSE s

Ellipsis == <<".", ".", ".">>

\* sanitize_text(text, max_length)
sanitize_text(text, max_length) ==
    IF Len(text) = 0 THEN <<>>
    ELSE LET noctl == SelectSeq(text, LAMBDA c : c \notin ControlChars)
             norm  == StripRight(StripLeft(CollapseWs(noctl)))
         IN  IF Len(norm) > max_length
             THEN SubSeq(norm, 1, max_length - 3) \o Ellipsis
             ELSE norm

RECURSIVE PolyHash(_, _)
PolyHash(s, h) == IF Len(s) = 0 THEN h
                  ELSE PolyHash(Tail(s), (h * 131 + Ord(s[1])) % 65521)

\* generate_content_hash(content): a digest of the whole text.  SHA-256 is
\* stood for by a 16-bit polynomial digest of the characters, so two texts
\* can collide here as they can (far less often) there.
generate_content_hash(content) == PolyHash(content, 7)

\* is_content_duplicate that answers without recording the digest
is_content_duplicate_NoRecord(content, seen_hashes) ==
    [dup |-> generate_content_hash(content) \in seen_hashes, seen |-> seen_hashes]

\* is_content_duplicate(content, seen_hashes): the returned flag and the
\* set as the call leaves it
is_content_duplicate(content, seen_hashes) ==
    LET content_hash == generate_content_hash(content)
    IN  IF content_hash \in seen_hashes
        THEN [dup |-> TRUE,  seen |-> seen_hashes]
        ELSE [dup |-> FALSE, seen |-> seen_hashes \cup {content_hash}]

\* dict.get(key, default) on a table given as a list of <<key, value>>
DictGet(dict, key, default) ==
    IF \E i \in 1..Len(dict) : dict[i][1] = key
    THEN dict[CHOOSE i \in 1..Len(dict) : dict[i][1] = key][2]
    ELSE default

RECURSIVE SumWeights(_, _)
\* the keyword loop: weight = keyword_weights.get(keyword.lower(), 0.1)
SumWeights(keywords, keyword_weights) ==
    IF Len(keywords) = 0 THEN 0
    ELSE DictGet(keyword_weights, Lower(keywords[1]), 1000)
         + SumWeights(Tail(keywords), keyword_weights)

\* calculate_relevance_score that scores a company with its default weight
\* of 0.3 whatever the caller passes
calculate_relevance_score_DefaultWeight(companies, keywords, text, keyword_weights, company_weight, polarity) ==
    LET base      == Len(companies) * 3000 + SumWeights(keywords, keyword_weights)
        sentiment == IF polarity > 1 THEN 1000 ELSE 0
        text_l    == Lower(text)
        urgency_count == Len(SelectSeq(urgency_words, LAMBDA w : Contains(text_l, w)))
        score     == base + sentiment + urgency_count * 500
    IN  Min(score, 10000)

\* calculate_relevance_score(companies, keywords, text, keyword_weights,
\* company_weight); polarity is TextBlob's polarity of the text in tenths
\* (an import or analysis failure is swallowed and counts as no boost:
\* polarity 0)
calculate_relevance_score(companies, keywords, text, keyword_weights, company_weight, polarity) ==
    LET base      == Len(companies) * company_weight + SumWeights(keywords, keyword_weights)
        sentiment == IF polarity > 1 THEN 1000 ELSE 0
        text_l    == Lower(text)
        urgency_count == Len(SelectSeq(urgency_words, LAMBDA w : Contains(text_l, w)))
        score     == base + sentiment + urgency_count * 500
    IN  Min(score, 10000)

NoneDT == [kind |-> "none", t |-> 0]

Aware(t) == [kind |-> "aware", t |-> t]

Naive(t) == [kind |-> "naive", t |-> t]

\* a > b on two datetime values: ordering an aware against a naive datetime,
\* or a datetime against anything else, raises TypeError
DtGreater(a, b) ==
    IF a.kind = b.kind /\ a.kind \in {"aware", "naive"}
    THEN [raised |-> FALSE, value |-> a.t > b.t]
    ELSE [raised |-> TRUE,  value |-> FALSE]

\* the cutoff computed from datetime.now(): a naive reading
RecentCutoff(now, hours) == Naive(now - hours)

\* is_recent_content that takes a missing timestamp for a recent one
is_recent_content_NoneRecent(timestamp, hours, now) ==
    IF timestamp.kind = "none" THEN [raised |-> FALSE, value |-> TRUE]
    ELSE DtGreater(timestamp, RecentCutoff(now, hours))

\* is_recent_content(timestamp, hours) evaluated at clock reading now
is_recent_content(timestamp, hours, now) ==
    IF timestamp.kind = "none" THEN [raised |-> FALSE, value |-> FALSE]
    ELSE DtGreater(timestamp, RecentCutoff(now, hours))

\* json.dump(..., default=str) followed by json.load: a datetime comes back
\* as its text
JsonRoundTripDt(dt) == IF dt.kind \in {"aware", "naive"}
                       THEN [kind |-> "str", t |-> dt.t] ELSE dt

(* ------------------------------------------------------------------ *)
(* twitter_monitor.py                                                  *)
(* ------------------------------------------------------------------ *)
\* _to_aware_utc(dt): a naive datetime is taken as UTC, an aware one is
\* converted to UTC (the same instant), anything else is returned as it is
_to_aware_utc(dt) ==
    IF dt.kind = "none" THEN NoneDT
    ELSE IF dt.kind = "naive" THEN Aware(dt.t)
    ELSE dt

\* keyword_weights of analyze_tweet_for_tge
keyword_weights_twitter ==
    << <<W_tge, 5000>>, <<W_token_generation_event, 5000>>, <<W_token_launch, 4000>>,
       <<W_airdrop, 3000>>, <<W_token_sale, 2500>>, <<W_ico, 2500>>, <<W_ido, 2500>>,
       <<W_token_listing, 2000>>, <<W_token_distribution, 2000>> >>

\* the dict a fetch builds from one API tweet (fetch_user_tweets, search_tweets)
FetchedTweet(raw) ==
    [id             |-> raw.id,
     text           |-> sanitize_text(raw.text, 1000),
     created_at     |-> _to_aware_utc(raw.created_at),
     retweet_count  |-> raw.retweet_count,
     favorite_count |-> raw.favorite_count,
     followers_count |-> raw.followers_count,
     polarity       |-> raw.polarity]

\* a gate that is content with a company or a keyword
IsTgeRelated_Either(mentioned_companies, found_keywords, relevance_score) ==
    /\ Len(mentioned_companies) > 0 \/ Len(found_keywords) > 0
    /\ relevance_score > 3000

\* relevance_score > 0.3 and both lists non-empty
IsTgeRelated(mentioned_companies, found_keywords, relevance_score) ==
    /\ Len(mentioned_companies) > 0
    /\ Len(found_keywords) > 0
    /\ relevance_score > 3000

\* the engagement boost and the follower boost, each followed by min(., 1.0)
BoostedScore(base, tweet) ==
    LET engagement_score == tweet.retweet_count * 10 + tweet.favorite_count * 5
        s1 == Min(base + Min(engagement_score, 2000), 10000)
        s2 == IF tweet.followers_count > 100000 THEN s1 + 1000
              ELSE IF tweet.followers_count > 10000 THEN s1 + 500
              ELSE s1
    IN  Min(s2, 10000)

\* analyze_tweet_for_tge(tweet) on seen_content_hashes = seen, at clock now:
\* the analysis dict and the seen set as the call leaves it
analyze_tweet_for_tge(tweet, seen, now) ==
    LET d == is_content_duplicate(tweet.text, seen)
        text_lower == Lower(tweet.text)
        mentioned_companies == SelectSeq(COMPANIES, LAMBDA c : Contains(text_lower, Lower(c)))
        found_keywords == SelectSeq(TGE_KEYWORDS, LAMBDA k : Contains(text_lower, Lower(k)))
        base == calculate_relevance_score(mentioned_companies, found_keywords, tweet.text,
                                          keyword_weights_twitter, 4000, tweet.polarity)
        relevance_score == BoostedScore(base, tweet)
    IN  IF d.dup
        THEN [analysis |-> [tweet |-> tweet,
                            mentioned_companies |-> <<>>,
                            found_keywords |-> <<>>,
                            relevance_score |-> 0,
                            is_tge_related |-> FALSE,
                            analysis_timestamp |-> Aware(now),
                            is_duplicate |-> TRUE],
              seen |-> d.seen]
        ELSE [analysis |-> [tweet |-> tweet,
                            mentioned_companies |-> mentioned_companies,
                            found_keywords |-> found_keywords,
                            relevance_score |-> relevance_score,
                            is_tge_related |-> IsTgeRelated(mentioned_companies,
                                                            found_keywords, relevance_score),
                            analysis_timestamp |-> Aware(now),
                            is_duplicate |-> FALSE],
              seen |-> d.seen]

RECURSIVE UniqueById(_, _)
\* {tweet['id']: tweet for tweet in all_tweets}.values(): one entry per id,
\* at the place of the id's first tweet and holding its last tweet
UniqueById(all_tweets, done) ==
    IF Len(all_tweets) = 0 THEN <<>>
    ELSE LET id == all_tweets[1].id
             same == SelectSeq(all_tweets, LAMBDA t : t.id = id)
         IN  IF id \in done THEN UniqueById(Tail(all_tweets), done)
             ELSE <<same[Len(same)]>> \o UniqueById(Tail(all_tweets), done \cup {id})

\* the recency test of the loop of process_tweets
TweetIsRecent(tweet, now) == is_recent_content(_to_aware_utc(tweet.created_at), 24, now)

RECURSIVE TweetLoop(_, _, _)
\* the loop of process_tweets over unique_tweets; st carries the monitor's
\* sets, the alert list of the cycle, and which ids were taken up (not yet
\* processed) and which were analyzed; an exception ends the loop
TweetLoop(tweets, st, now) ==
    IF Len(tweets) = 0 \/ st.raised THEN st
    ELSE LET tweet == tweets[1]
             rest  == Tail(tweets)
         IN  IF tweet.id \in st.processed THEN TweetLoop(rest, st, now)
             ELSE LET st1 == [st EXCEPT !.processed = @ \cup {tweet.id},
                                        !.taken = @ \cup {tweet.id}]
                      recent == TweetIsRecent(tweet, now)
                  IN  IF recent.raised THEN [st1 EXCEPT !.raised = TRUE]
                      ELSE IF ~recent.value THEN TweetLoop(rest, st1, now)
                      ELSE LET r == analyze_tweet_for_tge(tweet, st1.seen, now)
                               st2 == [st1 EXCEPT !.seen = r.seen,
                                                  !.analyzed = @ \cup {tweet.id},
                                                  !.analyses = Append(@, r.analysis)]
                               st3 == IF r.analysis.is_tge_related /\ ~r.analysis.is_duplicate
                                      THEN [st2 EXCEPT !.alerts = Append(@, r.analysis)]
                                      ELSE st2
                           IN  TweetLoop(rest, st3, now)

\* get_recent_tge_tweets(hours) at clock now
get_recent_tge_tweets(history, hours, now) ==
    LET cutoff_time == Aware(now - hours)
        cmp(a) == DtGreater(_to_aware_utc(a.tweet.created_at), cutoff_time)
        dated(a) == a.tweet.created_at.kind # "none"
    IN  IF \E i \in 1..Len(history) : dated(history[i]) /\ cmp(history[i]).raised
        THEN [raised |-> TRUE, value |-> <<>>]
        ELSE [raised |-> FALSE,
              value |-> SelectSeq(history, LAMBDA a : dated(a) /\ cmp(a).value)]

\* what json.dump(default=str) and json.load make of one stored analysis
JsonRoundTripAnalysis(a) ==
    [a EXCEPT !.tweet.created_at = JsonRoundTripDt(@),
              !.analysis_timestamp = JsonRoundTripDt(@)]

NoFile == [kind |-> "missing", processed_tweets |-> {}, seen_content_hashes |-> {},
           tge_tweets |-> <<>>]

CorruptFile == [kind |-> "corrupt", processed_tweets |-> {}, seen_content_hashes |-> {},
                tge_tweets |-> <<>>]

\* the state file after save_state: io is "ok", "fail" (the file could not be
\* opened: it is left as it was) or "torn" (the write broke off: the file no
\* longer parses)
SavedFile(old, processed, seen, history, io) ==
    IF io = "ok"
    THEN [kind |-> "ok", processed_tweets |-> processed, seen_content_hashes |-> seen,
          tge_tweets |-> [i \in 1..Len(history) |-> JsonRoundTripAnalysis(history[i])]]
    ELSE IF io = "torn" THEN CorruptFile
    ELSE old

\* load_state() that does not restore processed_tweets
LoadedState_NoIds(file) ==
    IF file.kind = "ok"
    THEN [processed_tweets |-> {},
          seen_content_hashes |-> file.seen_content_hashes,
          tge_tweets |-> file.tge_tweets]
    ELSE [processed_tweets |-> {}, seen_content_hashes |-> {}, tge_tweets |-> <<>>]

\* load_state(): the monitor's sets and history after construction from file
LoadedState(file) ==
    IF file.kind = "ok"
    THEN [processed_tweets |-> file.processed_tweets,
          seen_content_hashes |-> file.seen_content_hashes,
          tge_tweets |-> file.tge_tweets]
    ELSE [processed_tweets |-> {}, seen_content_hashes |-> {}, tge_tweets |-> <<>>]

(* ------------------------------------------------------------------ *)
(* news_scraper.py                                                     *)
(* ------------------------------------------------------------------ *)
\* to_aware_utc(dt_val): None and an unparseable text ("bad") give None
to_aware_utc(dt_val) ==
    IF dt_val.kind \in {"none", "bad"} THEN NoneDT
    ELSE IF dt_val.kind = "naive" THEN Aware(dt_val.t)
    ELSE dt_val

\* the item _parse_entries builds from one feed entry
ParsedEntry(e, url) ==
    [title |-> StripRight(StripLeft(e.title)), link |-> e.link, summary |-> e.summary,
     published |-> to_aware_utc(e.published), source |-> url]

NoLink == ""

\* it.get("link") or (it.get("source"), it.get("title"))
ItemKey(it) == IF it.link # NoLink THEN <<"link", it.link>>
               ELSE <<"source_title", it.source, it.title>>

\* the loop `if key in seen: continue; seen.add(key); append(it)`: an item
\* is kept when its key is not in seen and no earlier item has it
DedupeByKey(items, seen) ==
    LET first(i) == /\ ItemKey(items[i]) \notin seen
                    /\ \A j \in 1..(i - 1) : ItemKey(items[j]) # ItemKey(items[i])
        kept == SelectSeq([i \in 1..Len(items) |-> i], first)
    IN  [k \in 1..Len(kept) |-> items[kept[k]]]

RECURSIVE InsertNewest(_, _)
\* stable insertion for sort(key=published, reverse=True)
InsertNewest(sorted, it) ==
    IF Len(sorted) = 0 THEN <<it>>
    ELSE IF sorted[1].published.t >= it.published.t
         THEN <<sorted[1]>> \o InsertNewest(Tail(sorted), it)
         ELSE <<it>> \o sorted

RECURSIVE SortNewestFirst(_, _)
SortNewestFirst(items, acc) ==
    IF Len(items) = 0 THEN acc
    ELSE SortNewestFirst(Tail(items), InsertNewest(acc, items[1]))

Take(seq, n) == SubSeq(seq, 1, Min(n, Len(seq)))

\* a fetch_rss_feeds that keeps every dated item, repeated or not
fetch_rss_feeds_NoDedupe(all_items, max_results) ==
    LET items  == SelectSeq(all_items, LAMBDA i : i.published.kind # "none")
        unique == SortNewestFirst(items, <<>>)
    IN  IF max_results > 0 THEN Take(unique, max_results) ELSE unique

\* fetch_rss_feeds: all_items is the concatenation of what fetch_feed
\* returned for each url (an empty list for a url that failed)
fetch_rss_feeds(all_items, max_results) ==
    LET items  == SelectSeq(all_items, LAMBDA i : i.published.kind # "none")
        unique == SortNewestFirst(DedupeByKey(items, {}), <<>>)
    IN  IF max_results > 0 THEN Take(unique, max_results) ELSE unique

RECURSIVE LexLess(_, _)
\* a < b on two strings
LexLess(a, b) ==
    IF Len(b) = 0 THEN FALSE
    ELSE IF Len(a) = 0 THEN TRUE
    ELSE IF Ord(a[1]) # Ord(b[1]) THEN Ord(a[1]) < Ord(b[1])
    ELSE LexLess(Tail(a), Tail(b))

RECURSIVE Sorted(_)
\* sorted(set_of_strings)
Sorted(S) ==
    IF S = {} THEN <<>>
    ELSE LET m == CHOOSE x \in S : \A y \in S \ {x} : LexLess(x, y)
         IN  <<m>> \o Sorted(S \ {m})

\* f"{title}\n{summary}".lower()
Blob(a) == Lower(a.title \o <<"\n">> \o a.summary)

MatchLower(names, blob) ==
    Sorted({Lower(names[i]) : i \in {j \in 1..Len(names) :
                Len(names[j]) > 0 /\ Contains(blob, Lower(names[j]))}})

\* the alert process_articles builds for article a, or no alert
ArticleAlerts(a) ==
    LET mentioned_companies == MatchLower(COMPANIES, Blob(a))
        found_keywords == MatchLower(TGE_KEYWORDS, Blob(a))
    IN  IF Len(mentioned_companies) = 0 /\ Len(found_keywords) = 0 THEN <<>>
        ELSE << [title |-> a.title, link |-> a.link, summary |-> a.summary,
                 published |-> a.published, source |-> a.source,
                 mentioned_companies |-> mentioned_companies,
                 found_keywords |-> found_keywords,
                 relevance_score |-> 20000 * Len(mentioned_companies)
                                     + 10000 * Len(found_keywords)] >>

RECURSIVE AlertsOf(_)
\* the loop of process_articles over the fetched articles
AlertsOf(articles) ==
    IF Len(articles) = 0 THEN <<>>
    ELSE ArticleAlerts(articles[1]) \o AlertsOf(Tail(articles))

\* the rolling history after a cycle: alerts + _history, one entry per key,
\* cut to 500
NewHistory(alerts, history) == Take(DedupeByKey(alerts \o history, {}), 500)

\* get_recent_tge_articles(hours) at clock now
get_recent_tge_articles(history, hours, now) ==
    LET cutoff == Aware(now - hours)
        dated  == SelectSeq(history, LAMBDA it : it.published.kind # "none")
        dtOf(it) == IF it.published.kind = "naive" THEN Aware(it.published.t)
                    ELSE it.published
        out    == SelectSeq(dated, LAMBDA it : dtOf(it).t >= cutoff.t)
    IN  SortNewestFirst(out, <<>>)

\* steps 1 and 2 of process_articles: the fetched articles and the alerts
\* built from them; all_items is what the feeds returned
FetchAndMatch(all_items) ==
    LET articles == fetch_rss_feeds(all_items, 200)
    IN  [fetched |-> articles, alerts |-> AlertsOf(articles)]

\* process_articles() on a scraper whose counters and history are st; scan
\* is FetchAndMatch of what the feeds returned, fault an exception that
\* escapes fetch_feed (it catches only the requests exceptions of its first
\* try), raised before any counter is touched
process_articles(scan, fault, st) ==
    IF fault
    THEN [raised |-> TRUE, alerts |-> <<>>, fetched |-> <<>>,
          total_processed |-> st.total_processed,
          total_tge_articles |-> st.total_tge_articles,
          history |-> st.history]
    ELSE [raised |-> FALSE, alerts |-> scan.alerts, fetched |-> scan.fetched,
          total_processed |-> st.total_processed + Len(scan.fetched),
          total_tge_articles |-> st.total_tge_articles + Len(scan.alerts),
          history |-> NewHistory(scan.alerts, st.history)]

(* ------------------------------------------------------------------ *)
(* twitter_monitor.py: process_tweets                                  *)
(* ------------------------------------------------------------------ *)
\* the outcomes of the file write of a process_tweets call: the write is
\* reached only when the loop raised nothing
WriteOutcomes(all_tweets, processed, now) ==
    IF TweetLoop(UniqueById(all_tweets, {}),
                 [processed |-> processed, seen |-> {}, alerts |-> <<>>,
                  analyses |-> <<>>, taken |-> {}, analyzed |-> {}, raised |-> FALSE],
                 now).raised
    THEN {"ok"}
    ELSE {"ok", "fail", "torn"}

Ids(tweets) == {tweets[i].id : i \in 1..Len(tweets)}

\* a process_tweets that keeps only the ids it took up in this call
process_tweets_ForgetsOld(all_tweets, throttled, io, st, file, now) ==
    LET unique_tweets == UniqueById(all_tweets, {})
        loop == TweetLoop(unique_tweets,
                          [processed |-> st.processed_tweets,
                           seen |-> st.seen_content_hashes,
                           alerts |-> <<>>, analyses |-> <<>>,
                           taken |-> {}, analyzed |-> {}, raised |-> FALSE],
                          now)
    IN  [raised |-> loop.raised, alerts |-> IF loop.raised THEN <<>> ELSE loop.alerts,
         loop |-> loop, unique_tweets |-> unique_tweets,
         processed_tweets |-> loop.taken,
         seen_content_hashes |-> loop.seen,
         tge_tweets |-> st.tge_tweets,
         rate_limited |-> throttled,
         file |-> file, saved |-> FALSE]

\* a process_tweets that takes every fetched tweet for new and recent and
\* analyzes each against an empty seen set
process_tweets_NoDedup(all_tweets, throttled, io, st, file, now) ==
    LET unique_tweets == UniqueById(all_tweets, {})
        analyses == [i \in 1..Len(unique_tweets) |->
                        analyze_tweet_for_tge(unique_tweets[i], {}, now).analysis]
        alerts == SelectSeq(analyses, LAMBDA a : a.is_tge_related)
    IN  [raised |-> FALSE, alerts |-> alerts,
         loop |-> [processed |-> st.processed_tweets \cup Ids(unique_tweets),
                   seen |-> st.seen_content_hashes, alerts |-> alerts,
                   analyses |-> analyses, taken |-> Ids(unique_tweets),
                   analyzed |-> Ids(unique_tweets), raised |-> FALSE],
         unique_tweets |-> unique_tweets,
         processed_tweets |-> st.processed_tweets \cup Ids(unique_tweets),
         seen_content_hashes |-> st.seen_content_hashes,
         tge_tweets |-> st.tge_tweets \o alerts,
         rate_limited |-> throttled,
         file |-> SavedFile(file, st.processed_tweets \cup Ids(unique_tweets),
                            st.seen_content_hashes, st.tge_tweets \o alerts, io),
         saved |-> (io = "ok")]

\* process_tweets() on a monitor whose state is st, at clock now: all_tweets
\* is what monitor_accounts() + search_tge_keywords() returned, throttled
\* says a query met TooManyRequests, io is the outcome of the file write.
\* An exception leaves the loop before tge_tweets is extended and before
\* save_state().
process_tweets(all_tweets, throttled, io, st, file, now) ==
    LET unique_tweets == UniqueById(all_tweets, {})
        loop == TweetLoop(unique_tweets,
                          [processed |-> st.processed_tweets,
                           seen |-> st.seen_content_hashes,
                           alerts |-> <<>>, analyses |-> <<>>,
                           taken |-> {}, analyzed |-> {}, raised |-> FALSE],
                          now)
        history == st.tge_tweets \o loop.alerts
    IN  IF loop.raised
        THEN [raised |-> TRUE, alerts |-> <<>>, loop |-> loop,
              unique_tweets |-> unique_tweets,
              processed_tweets |-> loop.processed,
              seen_content_hashes |-> loop.seen,
              tge_tweets |-> st.tge_tweets,
              rate_limited |-> throttled,
              file |-> file, saved |-> FALSE]
        ELSE [raised |-> FALSE, alerts |-> loop.alerts, loop |-> loop,
              unique_tweets |-> unique_tweets,
              processed_tweets |-> loop.processed,
              seen_content_hashes |-> loop.seen,
              tge_tweets |-> history,
              rate_limited |-> throttled,
              file |-> SavedFile(file, loop.processed, loop.seen, history, io),
              saved |-> (io = "ok")]

(* ------------------------------------------------------------------ *)
(* email_notifier.py: the notification sink                            *)
(* ------------------------------------------------------------------ *)
\* the names email_notifier.py imports from config
EmailNotifierImports == {"EMAIL_CONFIG"}

\* _generate_email_body: reads alert['article'] of every news alert and the
\* module-level names COMPANIES and TGE_KEYWORDS in the footer
BodyRaises(news_alerts, twitter_alerts) ==
    \/ \E i \in 1..Len(news_alerts) : "article" \notin DOMAIN news_alerts[i]
    \/ \E i \in 1..Len(twitter_alerts) : "tweet" \notin DOMAIN twitter_alerts[i]
    \/ ~({"COMPANIES", "TGE_KEYWORDS"} \subseteq EmailNotifierImports)

\* send_tge_alert_email(news_alerts, twitter_alerts): True or False; every
\* exception is caught inside and reported as False
send_tge_alert_email(news_alerts, twitter_alerts, enabled, smtp_ok) ==
    IF ~enabled THEN FALSE
    ELSE IF Len(news_alerts) = 0 /\ Len(twitter_alerts) = 0 THEN TRUE
    ELSE IF BodyRaises(news_alerts, twitter_alerts) THEN FALSE
    ELSE smtp_ok

(* ------------------------------------------------------------------ *)
(* Bounds and the upstream catalogues.                                 *)
(* ------------------------------------------------------------------ *)
\* monitoring cycles per behaviour (the clock starts at 0, one hour a cycle)
MaxCycles == 2

\* the number of direct calls of a utility that are followed
MaxCalls == 3

\* calls of run_monitoring_cycle per behaviour of the continuous process
MaxTicks == 2

\* the accounts in TWITTER_ACCOUNTS and the queries search_tge_keywords builds
NumAccounts == 2

NumSearches == 2

\* what the Twitter API can return, in the order the queries of a cycle
\* return it: an undated tweet, a recent one naming a company and a keyword,
\* and an old one whose text sanitises to the text of the first
UpstreamTweets ==
    << [id |-> "2", text |-> Raw_XaiAirdrop, created_at |-> NoneDT,
        retweet_count |-> 0, favorite_count |-> 0, followers_count |-> 0,
        polarity |-> 0],
       [id |-> "1", text |-> Raw_CornTGE, created_at |-> Aware(-1),
        retweet_count |-> 300, favorite_count |-> 0, followers_count |-> 200000,
        polarity |-> 5],
       [id |-> "3", text |-> Raw_XaiAirdropWs, created_at |-> Aware(-30),
        retweet_count |-> 0, favorite_count |-> 40, followers_count |-> 20000,
        polarity |-> 0] >>

\* the catalogue as the fetches hand it on
FetchedCatalogue == [i \in 1..Len(UpstreamTweets) |-> FetchedTweet(UpstreamTweets[i])]

RECURSIVE PickInOrder(_, _, _)
\* the entries of seq whose index is in S, in the order of seq
PickInOrder(seq, S, i) ==
    IF i > Len(seq) THEN <<>>
    ELSE IF i \in S THEN <<seq[i]>> \o PickInOrder(seq, S, i + 1)
    ELSE PickInOrder(seq, S, i + 1)

\* the results of one cycle's queries: any part of the catalogue
Batches == {PickInOrder(FetchedCatalogue, S, 1) : S \in SUBSET (1..Len(UpstreamTweets))}

\* NEWS_SOURCES: two feeds
NEWS_SOURCES == <<"feedA", "feedB">>

\* the entries each feed can list: a recent article naming a company and a
\* keyword, an old one with a keyword only (its date has no zone), and one
\* naming a company whose date does not parse
FeedEntries ==
    << << [title |-> Ttl_CornTGE, link |-> "L1", summary |-> Sum_Launch,
           published |-> [kind |-> "aware", t |-> -1]],
          [title |-> Ttl_Airdrop, link |-> "L2", summary |-> Sum_Empty,
           published |-> [kind |-> "naive", t |-> -30]] >>,
       << [title |-> Ttl_Xai, link |-> NoLink, summary |-> Sum_Empty,
           published |-> [kind |-> "bad", t |-> 0]] >> >>

\* what fetch_feed returns for feed f: its parsed entries, or nothing when
\* the fetch (and its fallback) failed
ParsedFeeds == [f \in 1..Len(FeedEntries) |->
                  [i \in 1..Len(FeedEntries[f]) |-> ParsedEntry(FeedEntries[f][i], NEWS_SOURCES[f])]]

FeedItems(f, ok) == IF ok THEN ParsedFeeds[f] ELSE <<>>

\* how a feed can answer: with its entries or, failing, with nothing; when
\* process_articles is to raise, what the feeds hold is not looked at
FeedOutcomes(fault) == IF fault THEN {FALSE} ELSE BOOLEAN

\* FetchAndMatch for every way the two feeds can answer, worked out once
FetchAndMatchTable ==
    [ok1 \in BOOLEAN, ok2 \in BOOLEAN |-> FetchAndMatch(FeedItems(1, ok1) \o FeedItems(2, ok2))]

(* ------------------------------------------------------------------ *)
(* State.                                                              *)
(* ------------------------------------------------------------------ *)
VARIABLES
    pc,                     \* where run_monitoring_cycle stands
    now,                    \* the clock, in hours
    processed_tweets,       \* TwitterMonitor
    seen_content_hashes,
    tge_tweets,
    rate_limited,
    state_file,             \* logs/twitter_monitor_state.json
    total_processed,        \* NewsScraper
    total_tge_articles,
    news_history,           \* NewsScraper._history
    enabled,                \* EmailNotifier.enabled
    cycle_count,            \* CryptoTGEMonitor
    error_count,
    total_news_processed,
    total_tweets_processed,
    total_alerts_sent,
    last_run_time,
    monitor_state_file,     \* logs/monitor_state.json
    news_alerts,            \* locals of the cycle body
    twitter_alerts,
    ns_obs,                 \* what the last process_articles call did
    tw_obs,                 \* what the last process_tweets call did
    cy_obs,                 \* what the current cycle did so far
    reloaded,               \* ids found in the state file at construction
    probe,                  \* a direct call of a utility and what it returned
    proc                    \* the process in continuous mode: run_continuous

vars == <<pc, now, processed_tweets, seen_content_hashes, tge_tweets, rate_limited,
          state_file, total_processed, total_tge_articles, news_history, enabled,
          cycle_count, error_count, total_news_processed, total_tweets_processed,
          total_alerts_sent, last_run_time, monitor_state_file, news_alerts,
          twitter_alerts, ns_obs, tw_obs, cy_obs, reloaded, probe, proc>>

twitterVars == <<processed_tweets, seen_content_hashes, tge_tweets, rate_limited, state_file>>

newsVars == <<total_processed, total_tge_articles, news_history>>

appVars == <<cycle_count, error_count, total_news_processed, total_tweets_processed,
             total_alerts_sent, last_run_time, monitor_state_file>>

NoNewsCall == [called |-> FALSE, raised |-> FALSE, failed |-> {}, all_items |-> <<>>,
               fetched |-> <<>>, alerts |-> <<>>, before |-> {}]

NoTwitterCall == [called |-> FALSE, raised |-> FALSE, saved |-> FALSE, fetched |-> <<>>,
                  before |-> {}, seen_before |-> {}, taken |-> {}, analyzed |-> {},
                  analyses |-> <<>>, alerts |-> <<>>]

NoCycle == [ran |-> FALSE, err_start |-> 0, sent_start |-> 0,
            news_done |-> FALSE, news_raised |-> FALSE,
            twitter_done |-> FALSE, twitter_raised |-> FALSE,
            sink_calls |-> 0, sink_ok |-> FALSE,
            sink_news |-> <<>>, sink_tweets |-> <<>>]

NoProbe == [op |-> "none"]

NoAppFile == [kind |-> "missing", last_run_time |-> NoneDT, total_news_processed |-> 0,
              total_tweets_processed |-> 0, total_alerts_sent |-> 0]

\* CryptoTGEMonitor.__init__ with no state files on disk
MonitorInit ==
    /\ pc = "idle"
    /\ now = 0
    /\ processed_tweets = {}
    /\ seen_content_hashes = {}
    /\ tge_tweets = <<>>
    /\ rate_limited = FALSE
    /\ state_file = NoFile
    /\ total_processed = 0
    /\ total_tge_articles = 0
    /\ news_history = <<>>
    /\ enabled = TRUE
    /\ cycle_count = 0
    /\ error_count = 0
    /\ total_news_processed = 0
    /\ total_tweets_processed = 0
    /\ total_alerts_sent = 0
    /\ last_run_time = NoneDT
    /\ monitor_state_file = NoAppFile
    /\ news_alerts = <<>>
    /\ twitter_alerts = <<>>
    /\ ns_obs = NoNewsCall
    /\ tw_obs = NoTwitterCall
    /\ cy_obs = NoCycle
    /\ reloaded = {}

NoProcess == [where |-> "none"]

Init == MonitorInit /\ probe = NoProbe /\ proc = NoProcess

(* ------------------------------------------------------------------ *)
(* main.py: CryptoTGEMonitor                                           *)
(* ------------------------------------------------------------------ *)
\* a notification block that calls the sink in every cycle
SinkCalled_Always(news, tweets) == TRUE

\* an except branch that counts a failure twice
ErrorCountAfter_Twice(count, failed) == IF failed THEN count + 2 ELSE count

\* an except branch that leaves error_count as it was
ErrorCountAfter_Unchanged(count, failed) == count

\* the except branches of the cycle body: self.error_count += 1
ErrorCountAfter(count, failed) == IF failed THEN count + 1 ELSE count

\* a cycle body that does not go on after a source raised
AfterSource_Stuck(next, raised) == IF raised THEN "stuck" ELSE next

\* where the cycle body goes after a source step: an exception of the
\* source is caught inside the body, which goes on to the next step
AfterSource(next, raised) == next

\* CryptoTGEMonitor.save_state(): every exception is caught and logged, and
\* leaves the file as it was
SavedAppFile(old, run_time, news_total, tweets_total, sent_total, io) ==
    IF io = "ok"
    THEN [kind |-> "ok", last_run_time |-> run_time, total_news_processed |-> news_total,
          total_tweets_processed |-> tweets_total, total_alerts_sent |-> sent_total]
    ELSE old

\* run_monitoring_cycle, entry: start_time, cycle_count += 1, empty lists
StartCycle ==
    /\ pc = "idle"
    /\ now < MaxCycles
    /\ now' = now + 1
    /\ cycle_count' = cycle_count + 1
    /\ news_alerts' = <<>>
    /\ twitter_alerts' = <<>>
    /\ cy_obs' = [NoCycle EXCEPT !.err_start = error_count, !.sent_start = total_alerts_sent]
    /\ pc' = "news"
    /\ UNCHANGED <<twitterVars, newsVars, enabled, error_count, total_news_processed,
                   total_tweets_processed, total_alerts_sent, last_run_time,
                   monitor_state_file, ns_obs, tw_obs, reloaded, probe, proc>>

\* the news block of the cycle body: process_articles() under try/except
NewsStep ==
    /\ pc = "news"
    /\ \E fault \in BOOLEAN :
       \E ok1 \in FeedOutcomes(fault), ok2 \in FeedOutcomes(fault) :
          LET all_items == FeedItems(1, ok1) \o FeedItems(2, ok2)
              r == process_articles(FetchAndMatchTable[ok1, ok2], fault,
                                    [total_processed |-> total_processed,
                                     total_tge_articles |-> total_tge_articles,
                                     history |-> news_history])
          IN  /\ total_processed' = r.total_processed
              /\ total_tge_articles' = r.total_tge_articles
              /\ news_history' = r.history
              /\ news_alerts' = r.alerts
              /\ total_news_processed' = total_news_processed + Len(r.alerts)
              /\ error_count' = ErrorCountAfter(error_count, r.raised)
              /\ ns_obs' = [called |-> TRUE, raised |-> r.raised,
                            failed |-> {f \in {1} : ~ok1} \cup {f \in {2} : ~ok2},
                            all_items |-> all_items,
                            fetched |-> r.fetched, alerts |-> r.alerts,
                            before |-> ns_obs.before
                                       \cup {ItemKey(ns_obs.alerts[i]) : i \in 1..Len(ns_obs.alerts)}]
              /\ cy_obs' = [cy_obs EXCEPT !.news_done = TRUE, !.news_raised = r.raised]
              /\ pc' = AfterSource("twitter", r.raised)
    /\ UNCHANGED <<now, twitterVars, enabled, cycle_count, total_tweets_processed,
                   total_alerts_sent, last_run_time, monitor_state_file, twitter_alerts,
                   tw_obs, reloaded, probe, proc>>

\* the Twitter block of the cycle body: process_tweets() under try/except
TwitterStep ==
    /\ pc = "twitter"
    /\ \E all_tweets \in Batches, throttled \in BOOLEAN :
       \E io \in WriteOutcomes(all_tweets, processed_tweets, now) :
          \E r \in {process_tweets(all_tweets, throttled, io,
                                    [processed_tweets |-> processed_tweets,
                                     seen_content_hashes |-> seen_content_hashes,
                                     tge_tweets |-> tge_tweets],
                                    state_file, now)} :
              /\ processed_tweets' = r.processed_tweets
              /\ seen_content_hashes' = r.seen_content_hashes
              /\ tge_tweets' = r.tge_tweets
              /\ rate_limited' = r.rate_limited
              /\ state_file' = r.file
              /\ twitter_alerts' = r.alerts
              /\ total_tweets_processed' = total_tweets_processed + Len(r.alerts)
              /\ error_count' = ErrorCountAfter(error_count, r.raised)
              /\ tw_obs' = [called |-> TRUE, raised |-> r.raised, saved |-> r.saved,
                            fetched |-> r.unique_tweets, before |-> processed_tweets,
                            seen_before |-> seen_content_hashes,
                            taken |-> r.loop.taken, analyzed |-> r.loop.analyzed,
                            analyses |-> r.loop.analyses, alerts |-> r.alerts]
              /\ cy_obs' = [cy_obs EXCEPT !.twitter_done = TRUE,
                                          !.twitter_raised = r.raised]
              /\ pc' = AfterSource("notify", r.raised)
    /\ UNCHANGED <<now, newsVars, enabled, cycle_count, total_news_processed,
                   total_alerts_sent, last_run_time, monitor_state_file, news_alerts,
                   ns_obs, reloaded, probe, proc>>

\* `if news_alerts or twitter_alerts:` of the cycle body
SinkCalled(news, tweets) == Len(news) > 0 \/ Len(tweets) > 0

\* the notification block: the sink is called only with a non-empty batch
NotifyStep ==
    /\ pc = "notify"
    /\ IF SinkCalled(news_alerts, twitter_alerts)
       THEN \E smtp_ok \in BOOLEAN :
              LET ok == send_tge_alert_email(news_alerts, twitter_alerts, enabled, smtp_ok)
              IN  /\ total_alerts_sent' = IF ok THEN total_alerts_sent + 1
                                          ELSE total_alerts_sent
                  /\ error_count' = ErrorCountAfter(error_count, ~ok)
                  /\ cy_obs' = [cy_obs EXCEPT !.sink_calls = @ + 1, !.sink_ok = ok,
                                              !.sink_news = news_alerts,
                                              !.sink_tweets = twitter_alerts]
       ELSE UNCHANGED <<total_alerts_sent, error_count, cy_obs>>
    /\ pc' = "finish"
    /\ UNCHANGED <<now, twitterVars, newsVars, enabled, cycle_count, total_news_processed,
                   total_tweets_processed, last_run_time, monitor_state_file,
                   news_alerts, twitter_alerts, ns_obs, tw_obs, reloaded, probe, proc>>

\* the end of the cycle body: last_run_time, save_state(), the summary log
FinishCycle ==
    /\ pc = "finish"
    /\ last_run_time' = Naive(now)
    /\ monitor_state_file' = SavedAppFile(monitor_state_file, Naive(now),
                                          total_news_processed, total_tweets_processed,
                                          total_alerts_sent, "ok")
    /\ cy_obs' = [cy_obs EXCEPT !.ran = TRUE]
    /\ pc' = "idle"
    /\ UNCHANGED <<now, twitterVars, newsVars, enabled, cycle_count, error_count,
                   total_news_processed, total_tweets_processed, total_alerts_sent,
                   news_alerts, twitter_alerts, ns_obs, tw_obs, reloaded, probe, proc>>

\* the process ends between two cycles and a new one is constructed:
\* NewsScraper(), TwitterMonitor() with load_state(), CryptoTGEMonitor
\* with load_state()
Restart ==
    /\ pc = "idle"
    /\ cy_obs.ran
    /\ LET st == LoadedState(state_file)
       IN  /\ processed_tweets' = st.processed_tweets
           /\ seen_content_hashes' = st.seen_content_hashes
           /\ tge_tweets' = st.tge_tweets
    /\ rate_limited' = FALSE
    /\ total_processed' = 0
    /\ total_tge_articles' = 0
    /\ news_history' = <<>>
    /\ cycle_count' = 0
    /\ error_count' = 0
    /\ last_run_time' = monitor_state_file.last_run_time
    /\ total_news_processed' = monitor_state_file.total_news_processed
    /\ total_tweets_processed' = monitor_state_file.total_tweets_processed
    /\ total_alerts_sent' = monitor_state_file.total_alerts_sent
    /\ news_alerts' = <<>>
    /\ twitter_alerts' = <<>>
    /\ ns_obs' = NoNewsCall
    /\ tw_obs' = NoTwitterCall
    /\ cy_obs' = NoCycle
    /\ reloaded' = IF state_file.kind = "ok" THEN state_file.processed_tweets ELSE {}
    /\ UNCHANGED <<pc, now, state_file, enabled, monitor_state_file, probe, proc>>

Next == StartCycle \/ NewsStep \/ TwitterStep \/ NotifyStep \/ FinishCycle \/ Restart

Spec == Init /\ [][Next]_vars

(* ------------------------------------------------------------------ *)
(* Direct calls of is_content_duplicate on one set                     *)
(* ------------------------------------------------------------------ *)
ProbeTexts == {Raw_CornTGE, Raw_XaiAirdrop, Raw_XaiAirdropWs, Raw_Unicorn,
               Raw_AirdropSoon, Raw_Hello}

ProbeDigests == {generate_content_hash(t) : t \in ProbeTexts}

\* a set of digests as earlier calls may have left it, and no call made yet
InitDedup ==
    /\ MonitorInit
    /\ proc = NoProcess
    /\ \E S \in SUBSET ProbeDigests :
          probe = [op |-> "dedup", calls |-> 0, content |-> <<>>, dup |-> FALSE,
                   start |-> S, before |-> S, seen |-> S,
                   given |-> {}, given_before |-> {}]

\* one call is_content_duplicate(content, seen_hashes) on the set
DedupCall ==
    /\ probe.op = "dedup"
    /\ probe.calls < MaxCalls
    /\ \E content \in ProbeTexts :
          LET r == is_content_duplicate(content, probe.seen)
          IN  probe' = [op |-> "dedup", calls |-> probe.calls + 1, content |-> content,
                        dup |-> r.dup, start |-> probe.start,
                        before |-> probe.seen, seen |-> r.seen,
                        given |-> probe.given \cup {content},
                        given_before |-> probe.given]
    /\ UNCHANGED <<pc, now, twitterVars, newsVars, enabled, appVars, news_alerts,
                   twitter_alerts, ns_obs, tw_obs, cy_obs, reloaded, proc>>

NextDedup == DedupCall

SpecDedup == InitDedup /\ [][NextDedup]_vars

(* ------------------------------------------------------------------ *)
(* main.py: the process in continuous mode.  run_monitoring_cycle is   *)
(* followed through its retry wrapper; of the cycle body only the      *)
(* control flow and the counters are kept.                             *)
(* ------------------------------------------------------------------ *)
cycleVars == <<pc, now, twitterVars, newsVars, enabled, appVars, news_alerts,
               twitter_alerts, ns_obs, tw_obs, cy_obs, reloaded>>

\* a wrapper that retries for as long as the call raises
WrapperAfter_NoLimit(attempt, raised, max_retries) ==
    IF ~raised THEN "return" ELSE "retry"

\* retry_on_failure.wrapper after attempt number attempt (from 0) of the
\* wrapped call: the value is returned, the exception is raised to the caller
\* when attempt = max_retries, and otherwise the call is made again
WrapperAfter(attempt, raised, max_retries) ==
    IF ~raised THEN "return"
    ELSE IF attempt = max_retries THEN "raise"
    ELSE "retry"

\* where an exception of run_monitoring_cycle lands: the initial call of
\* run_continuous is outside every try, so main() prints "Fatal error" and
\* exits; schedule.run_pending() is inside the try of the main loop
CallerAfterRaise(caller) == IF caller = "initial" THEN "exited" ELSE "loop"

\* where a call of run_monitoring_cycle returns to: the initial call to the
\* main loop, a scheduled one to schedule.run_pending(), which goes on with
\* the jobs that are due
CallerAfterReturn(caller) == IF caller = "initial" THEN "loop" ELSE "pending"

\* the jobs schedule.run_pending() finds due, in the order of their run
\* times: the 30 minute cycle, the daily summary, both or none
DueJobs == {<<>>, <<"cycle">>, <<"summary">>, <<"summary", "cycle">>, <<"cycle", "summary">>}

\* a scheduler that starts a due job while another is still running
JobMayStart_Threaded(p) == p.where \in {"pending", "body", "summary"}

\* schedule runs a job by calling it from run_pending(): the next job starts
\* when the one before has returned
JobMayStart(p) == p.where = "pending"

\* a call of the decorated run_monitoring_cycle by caller: the wrapper starts
\* with attempt 0 and the body starts with cycle_count += 1
EnterCycle(p, caller) ==
    [p EXCEPT !.where = "body", !.caller = caller, !.phase = "news",
              !.attempt = 0, !.current_delay = 30, !.slept = <<>>,
              !.cycle_count = @ + 1, !.invocations = @ + 1,
              !.bodies = 1, !.raises = 0, !.outcome = "none",
              !.active_cycles = @ + 1,
              !.err_start = p.error_count, !.sent_start = p.total_alerts_sent,
              !.news_raised = FALSE, !.twitter_raised = FALSE, !.sink = "none"]

\* main() in continuous mode, after CryptoTGEMonitor()
InitRun ==
    /\ MonitorInit
    /\ probe = NoProbe
    /\ proc = [where |-> "start", caller |-> "none", phase |-> "none", running |-> TRUE,
               attempt |-> 0, current_delay |-> 30, slept |-> <<>>,
               cycle_count |-> 0, error_count |-> 0, rate_limited |-> FALSE,
               invocations |-> 0, bodies |-> 0, raises |-> 0, outcome |-> "none",
               due |-> <<>>, active_cycles |-> 0, active_summaries |-> 0,
               total_alerts_sent |-> 0, err_start |-> 0, sent_start |-> 0,
               news_raised |-> FALSE, twitter_raised |-> FALSE, sink |-> "none"]

\* run_continuous: setup_schedule(), then the initial cycle
RunContinuous ==
    /\ proc.where = "start"
    /\ proc' = EnterCycle(proc, "initial")
    /\ UNCHANGED <<cycleVars, probe>>

\* the news block of the cycle body
BodyNews ==
    /\ proc.where = "body" /\ proc.phase = "news"
    /\ \E raised \in BOOLEAN :
          proc' = [proc EXCEPT !.phase = AfterSource("twitter", raised),
                               !.news_raised = raised,
                               !.error_count = ErrorCountAfter(@, raised)]
    /\ UNCHANGED <<cycleVars, probe>>

\* the Twitter block of the cycle body
BodyTwitter ==
    /\ proc.where = "body" /\ proc.phase = "twitter"
    /\ \E raised \in BOOLEAN, throttled \in BOOLEAN :
          proc' = [proc EXCEPT !.phase = AfterSource("notify", raised),
                               !.rate_limited = throttled,
                               !.twitter_raised = raised,
                               !.error_count = ErrorCountAfter(@, raised)]
    /\ UNCHANGED <<cycleVars, probe>>

\* the notification block of the cycle body
BodyNotify ==
    /\ proc.where = "body" /\ proc.phase = "notify"
    /\ \E sink \in {"not called", "ok", "failed"} :
          proc' = [proc EXCEPT !.phase = "finish",
                               !.sink = sink,
                               !.total_alerts_sent = IF sink = "ok" THEN @ + 1 ELSE @,
                               !.error_count = ErrorCountAfter(@, sink = "failed")]
    /\ UNCHANGED <<cycleVars, probe>>

\* the end of the cycle body: the body returns and so does the wrapper; the
\* initial call is followed by the main loop, a scheduled one is inside it
BodyReturn ==
    /\ proc.where = "body" /\ proc.phase = "finish"
    /\ WrapperAfter(proc.attempt, FALSE, 2) = "return"
    /\ proc' = [proc EXCEPT !.where = CallerAfterReturn(proc.caller), !.phase = "none",
                             !.outcome = "returned", !.active_cycles = @ - 1,
                             !.err_start = 0, !.sent_start = 0, !.news_raised = FALSE,
                             !.twitter_raised = FALSE, !.sink = "none"]
    /\ UNCHANGED <<cycleVars, probe>>

\* an exception of a statement of the body that no inner try covers: the
\* outer except adds one to error_count and raises to the wrapper, which
\* sleeps and calls the body again or raises to the caller
BodyRaise ==
    /\ proc.where = "body"
    /\ proc.phase \in {"news", "twitter", "notify", "finish"}
    /\ \E after \in {WrapperAfter(proc.attempt, TRUE, 2)} :
          proc' = IF after = "retry"
                  THEN [proc EXCEPT !.error_count = @ + 1, !.raises = @ + 1,
                                    !.slept = Append(@, proc.current_delay),
                                    !.current_delay = @ * 2,
                                    !.attempt = @ + 1,
                                    !.phase = "news", !.cycle_count = @ + 1,
                                    !.bodies = @ + 1,
                                    !.err_start = proc.error_count + 1,
                                    !.sent_start = proc.total_alerts_sent,
                                    !.news_raised = FALSE, !.twitter_raised = FALSE,
                                    !.sink = "none"]
                  ELSE [proc EXCEPT !.error_count = @ + 1, !.raises = @ + 1,
                                    !.phase = "none", !.outcome = "raised",
                                    !.active_cycles = @ - 1, !.due = <<>>,
                                    !.err_start = 0, !.sent_start = 0,
                                    !.news_raised = FALSE, !.twitter_raised = FALSE,
                                    !.sink = "none",
                                    !.where = CallerAfterRaise(proc.caller)]
    /\ UNCHANGED <<cycleVars, probe>>

\* `while self.running` found true: schedule.run_pending() collects the jobs
\* that are due
LoopTest ==
    /\ proc.where = "loop" /\ proc.running
    /\ \E due \in DueJobs :
          /\ (\E k \in 1..Len(due) : due[k] = "cycle") => proc.invocations < MaxTicks
          /\ proc' = [proc EXCEPT !.where = "pending", !.due = due]
    /\ UNCHANGED <<cycleVars, probe>>

\* run_pending() runs the 30 minute job: a call of run_monitoring_cycle
Tick ==
    /\ proc.where # "none" /\ proc.due # <<>> /\ Head(proc.due) = "cycle"
    /\ JobMayStart(proc)
    /\ proc' = EnterCycle([proc EXCEPT !.due = Tail(@)], "scheduled")
    /\ UNCHANGED <<cycleVars, probe>>

\* run_pending() runs the daily job: send_daily_summary starts
SummaryStart ==
    /\ proc.where # "none" /\ proc.due # <<>> /\ Head(proc.due) = "summary"
    /\ JobMayStart(proc)
    /\ proc' = [proc EXCEPT !.where = "summary", !.due = Tail(@), !.active_summaries = @ + 1]
    /\ UNCHANGED <<cycleVars, probe>>

\* send_daily_summary returns; it catches what its sink call raises
SummaryEnd ==
    /\ proc.where = "summary"
    /\ proc' = [proc EXCEPT !.where = "pending", !.active_summaries = @ - 1]
    /\ UNCHANGED <<cycleVars, probe>>

\* run_pending() has run what was due: time.sleep(60), then the loop test
LoopSleep ==
    /\ proc.where = "pending" /\ proc.due = <<>>
    /\ proc' = [proc EXCEPT !.where = "loop"]
    /\ UNCHANGED <<cycleVars, probe>>

\* SIGINT or SIGTERM, at any point after the handlers were installed: the
\* handler clears the running flag
Signal ==
    /\ proc.where \in {"start", "body", "loop", "pending", "summary"} /\ proc.running
    /\ proc' = [proc EXCEPT !.running = FALSE]
    /\ UNCHANGED <<cycleVars, probe>>

\* `while self.running` found false: "Monitoring stopped"
LoopExit ==
    /\ proc.where = "loop" /\ ~proc.running
    /\ proc' = [proc EXCEPT !.where = "stopped"]
    /\ UNCHANGED <<cycleVars, probe>>

NextRun == RunContinuous \/ BodyNews \/ BodyTwitter \/ BodyNotify \/ BodyReturn
           \/ BodyRaise \/ LoopTest \/ Tick \/ SummaryStart \/ SummaryEnd
           \/ LoopSleep \/ Signal \/ LoopExit

SpecRun == InitRun /\ [][NextRun]_vars

\* every block of the body ends: the adapter calls and the sink call terminate
FairSpecRun ==
    SpecRun /\ WF_vars(BodyNews) /\ WF_vars(BodyTwitter) /\ WF_vars(BodyNotify)
            /\ WF_vars(BodyReturn)

(* ------------------------------------------------------------------ *)
(* twitter_monitor.py: the queries of one process_tweets call          *)
(* ------------------------------------------------------------------ *)
\* what the API answers to one search_recent_tweets call
ApiAnswers == {"data", "empty", "TooManyRequests", "Forbidden", "TwitterServerError"}

\* what it answers when the same call is made again
ApiAnswersAgain == {"data", "TwitterServerError"}

\* a search that meets TooManyRequests without setting the flag
search_tweets_NoFlag(answer, flag) == [raised |-> "none", tweets |-> 0, rate_limited |-> flag]

\* the try/except of search_tweets (and of the body of fetch_user_tweets, which
\* has the same handlers) on one API answer: the exception that leaves it, the
\* number of tweets returned, and the monitor's rate_limited flag afterwards.
\* The last handler is `except Exception`, so nothing leaves it.
search_tweets(answer, flag) ==
    IF answer = "data" THEN [raised |-> "none", tweets |-> 1, rate_limited |-> flag]
    ELSE IF answer = "empty" THEN [raised |-> "none", tweets |-> 0, rate_limited |-> flag]
    ELSE IF answer = "TooManyRequests"
         THEN [raised |-> "none", tweets |-> 0, rate_limited |-> TRUE]
    ELSE IF answer = "Forbidden" THEN [raised |-> "none", tweets |-> 0, rate_limited |-> flag]
    ELSE [raised |-> "none", tweets |-> 0, rate_limited |-> flag]

RECURSIVE fetch_user_tweets(_, _, _, _, _)
\* fetch_user_tweets under retry_on_failure(max_retries=2, delay=3.0,
\* exceptions=(TwitterServerError,)): answers[k] is the API's answer to the
\* k-th attempt; an exception other than TwitterServerError is not retried
fetch_user_tweets(answers, attempt, flag, current_delay, slept) ==
    LET r == search_tweets(answers[attempt + 1], flag)
        after == WrapperAfter(attempt, r.raised = "TwitterServerError", 2)
    IN  IF after = "retry"
        THEN fetch_user_tweets(answers, attempt + 1, r.rate_limited, current_delay * 2,
                               Append(slept, current_delay))
        ELSE [attempts |-> attempt + 1, raised |-> r.raised, tweets |-> r.tweets,
              rate_limited |-> r.rate_limited, slept |-> slept]

\* a monitor between two cycles: the flag is what the last cycle left
InitFetch ==
    /\ MonitorInit
    /\ proc = NoProcess
    /\ \E carried \in BOOLEAN :
          probe = [op |-> "fetch", stage |-> "idle", i |-> 1, carried |-> carried,
                   rate_limited |-> carried, all_tweets |-> 0, log |-> <<>>]

\* process_tweets, entry: self.rate_limited = False
BeginProcessTweets ==
    /\ probe.op = "fetch" /\ probe.stage = "idle"
    /\ probe' = [probe EXCEPT !.stage = "accounts", !.rate_limited = FALSE]
    /\ UNCHANGED <<cycleVars, proc>>

\* monitor_accounts: one turn of the loop over TWITTER_ACCOUNTS; an exception
\* of fetch_user_tweets is logged and the loop continues
AccountQuery ==
    /\ probe.op = "fetch" /\ probe.stage = "accounts"
    /\ \E a1 \in ApiAnswers, a2 \in ApiAnswersAgain, a3 \in ApiAnswersAgain :
       \E r \in {fetch_user_tweets(<<a1, a2, a3>>, 0, probe.rate_limited, 3, <<>>)} :
          probe' = [probe EXCEPT
                      !.rate_limited = r.rate_limited,
                      !.all_tweets = @ + r.tweets,
                      !.log = Append(@, [kind |-> "account", answer |-> a1,
                                         again |-> {a2, a3},
                                         attempts |-> r.attempts, slept |-> r.slept,
                                         tweets |-> r.tweets]),
                      !.i = IF probe.i = NumAccounts THEN 1 ELSE @ + 1,
                      !.stage = IF probe.i = NumAccounts THEN "searches" ELSE @]
    /\ UNCHANGED <<cycleVars, proc>>

\* search_tge_keywords: one turn of the loop over search_queries
SearchQuery ==
    /\ probe.op = "fetch" /\ probe.stage = "searches"
    /\ \E a1 \in ApiAnswers :
       \E r \in {search_tweets(a1, probe.rate_limited)} :
          probe' = [probe EXCEPT
                      !.rate_limited = r.rate_limited,
                      !.all_tweets = @ + r.tweets,
                      !.log = Append(@, [kind |-> "search", answer |-> a1,
                                         again |-> {},
                                         attempts |-> 1, slept |-> <<>>,
                                         tweets |-> r.tweets]),
                      !.i = IF probe.i = NumSearches THEN 1 ELSE @ + 1,
                      !.stage = IF probe.i = NumSearches THEN "done" ELSE @]
    /\ UNCHANGED <<cycleVars, proc>>

NextFetch == BeginProcessTweets \/ AccountQuery \/ SearchQuery

SpecFetch == InitFetch /\ [][NextFetch]_vars

(* ------------------------------------------------------------------ *)
(* news_scraper.py: the urls of one fetch_rss_feeds call               *)
(* ------------------------------------------------------------------ *)
\* how a url can answer a GET: a well-formed feed, no connection, a 4xx/5xx
\* status, a broken payload of which the parser keeps the first entry, and a
\* broken payload of which it keeps none
FeedAnswers == {"ok", "unreachable", "http_error", "malformed", "malformed_empty"}

\* the values of max_results fetch_rss_feeds is called with: no limit, limits
\* the items can exceed, and the default
MaxResultsValues == {0, 1, 2, 100}

\* the lists of urls fetch_rss_feeds is called with: indexes into NEWS_SOURCES
FeedLists == {<<1, 2>>, <<2, 1>>, <<1, 2, 1>>}

\* what the normalized url of a feed lists, when it has one
FallbackEntries ==
    << [title |-> Ttl_Hello, link |-> "L3", summary |-> Sum_Empty,
        published |-> [kind |-> "aware", t |-> -2]] >>

\* the response to a GET of a url whose feed lists `entries`
FeedResponse(answer, entries) ==
    IF answer = "unreachable" THEN [raised |-> "RequestException", bozo |-> FALSE, entries |-> <<>>]
    ELSE IF answer = "http_error" THEN [raised |-> "HTTPError", bozo |-> FALSE, entries |-> <<>>]
    ELSE IF answer = "malformed" THEN [raised |-> "none", bozo |-> TRUE, entries |-> Take(entries, 1)]
    ELSE IF answer = "malformed_empty" THEN [raised |-> "none", bozo |-> TRUE, entries |-> <<>>]
    ELSE [raised |-> "none", bozo |-> FALSE, entries |-> entries]

\* a parser that gives up on a payload flagged bozo
_parse_entries_Strict(resp, url, limit) == IF resp.bozo THEN <<>> ELSE
    [i \in 1..Min(Len(resp.entries), limit) |-> ParsedEntry(resp.entries[i], url)]

\* _parse_entries: bozo is only logged; the first max(1, min(limit, 200))
\* entries feedparser kept become items
_parse_entries(resp, url, limit) ==
    LET max_items == IF Min(limit, 200) < 1 THEN 1 ELSE Min(limit, 200)
    IN  [i \in 1..Min(Len(resp.entries), max_items) |-> ParsedEntry(resp.entries[i], url)]

\* _try(u) inside fetch_feed: get, raise_for_status, parse
TryFeed(resp, url, limit) ==
    IF resp.raised # "none" THEN [raised |-> resp.raised, items |-> <<>>]
    ELSE [raised |-> "none", items |-> _parse_entries(resp, url, limit)]

\* a fetch_feed that requests the normalized url after every failure, even
\* when it is the url it has just requested
fetch_feed_AlwaysFallback(first, has_fallback, second) ==
    IF first.raised = "none"
    THEN [raised |-> "none", requested |-> <<"original">>, items |-> first.items]
    ELSE [raised |-> "none", requested |-> <<"original", "fallback">>,
          items |-> IF second.raised = "none" THEN second.items ELSE <<>>]

\* fetch_feed: the original url, then on HTTPError or another
\* RequestException the normalized url if it differs, then nothing;
\* requested lists the GETs made, in order
fetch_feed(first, has_fallback, second) ==
    IF first.raised = "none"
    THEN [raised |-> "none", requested |-> <<"original">>, items |-> first.items]
    ELSE IF first.raised \in {"HTTPError", "RequestException"}
    THEN IF has_fallback
         THEN IF second.raised = "none"
              THEN [raised |-> "none", requested |-> <<"original", "fallback">>,
                    items |-> second.items]
              ELSE [raised |-> "none", requested |-> <<"original", "fallback">>,
                    items |-> <<>>]
         ELSE [raised |-> "none", requested |-> <<"original">>, items |-> <<>>]
    ELSE [raised |-> first.raised, requested |-> <<"original">>, items |-> <<>>]

InitFeeds ==
    /\ MonitorInit
    /\ proc = NoProcess
    /\ \E urls \in FeedLists :
          probe = [op |-> "feeds", stage |-> "loop", urls |-> urls, i |-> 1,
                   all_items |-> <<>>, log |-> <<>>, raised |-> "none", result |-> <<>>,
                   max_results |-> 100]

\* fetch_rss_feeds: one turn of the loop over urls
FetchOneFeed ==
    /\ probe.op = "feeds" /\ probe.stage = "loop" /\ probe.i <= Len(probe.urls)
    /\ \E answer \in FeedAnswers, has_fallback \in BOOLEAN, fallback_answer \in FeedAnswers :
       \E f \in {probe.urls[probe.i]} :
       \E r \in {fetch_feed(TryFeed(FeedResponse(answer, FeedEntries[f]), NEWS_SOURCES[f], 50),
                            has_fallback,
                            TryFeed(FeedResponse(fallback_answer, FallbackEntries), "fallback", 50))} :
          probe' = [probe EXCEPT
                      !.i = @ + 1,
                      !.stage = IF r.raised # "none" THEN "raised" ELSE @,
                      !.raised = r.raised,
                      !.all_items = @ \o r.items,
                      !.log = Append(@, [f |-> f, answer |-> answer,
                                         has_fallback |-> has_fallback,
                                         fallback_answer |-> IF Len(r.requested) > 1
                                                             THEN fallback_answer ELSE "none",
                                         requested |-> r.requested,
                                         items |-> r.items])]
    /\ UNCHANGED <<cycleVars, proc>>

\* fetch_rss_feeds after the loop: dated items, deduplicated, newest first,
\* cut to max_results when that is not 0
FinishFetch ==
    /\ probe.op = "feeds" /\ probe.stage = "loop" /\ probe.i > Len(probe.urls)
    /\ \E max_results \in MaxResultsValues :
          probe' = [probe EXCEPT !.stage = "returned",
                                 !.max_results = max_results,
                                 !.result = fetch_rss_feeds(probe.all_items, max_results)]
    /\ UNCHANGED <<cycleVars, proc>>

NextFeeds == FetchOneFeed \/ FinishFetch

SpecFeeds == InitFeeds /\ [][NextFeeds]_vars

(* ------------------------------------------------------------------ *)
(* twitter_monitor.py, utils.py: the state file across processes       *)
(* ------------------------------------------------------------------ *)
\* an analysis as a state file holds it: its datetimes are text
StoredAnalysis(i) ==
    [tweet |-> [id |-> "0", created_at |-> [kind |-> "str", t |-> 0 - i]],
     is_tge_related |-> TRUE, is_duplicate |-> FALSE,
     analysis_timestamp |-> [kind |-> "str", t |-> 0 - i]]

StoredHistory(n) == [i \in 1..n |-> StoredAnalysis(i)]

\* what can lie at the path of the state file when a process starts: no
\* file, a file that cannot be opened, text that is not JSON, bytes that are
\* not UTF-8, JSON that is a non-empty list, and a state object with some
\* ids and an alert history of 0, 2 or 501 entries
StateFiles ==
    {NoFile, CorruptFile}
    \cup {[kind |-> k, processed_tweets |-> {}, seen_content_hashes |-> {},
           tge_tweets |-> <<>>] : k \in {"unreadable", "bad_utf8", "not_object"}}
    \cup {[kind |-> "ok", processed_tweets |-> ids, seen_content_hashes |-> {},
           tge_tweets |-> StoredHistory(n)] : ids \in {{}, {"1"}}, n \in {0, 2, 501}}

\* load_json_file(path, {}): the exception that leaves it and the kind of
\* value it returns; only JSONDecodeError and IOError are caught
load_json_file(file) ==
    IF file.kind = "missing" THEN [raised |-> "none", value |-> "default"]
    ELSE IF file.kind \in {"unreadable", "corrupt"} THEN [raised |-> "none", value |-> "default"]
    ELSE IF file.kind = "bad_utf8" THEN [raised |-> "UnicodeDecodeError", value |-> "default"]
    ELSE IF file.kind = "not_object" THEN [raised |-> "none", value |-> "list"]
    ELSE [raised |-> "none", value |-> "dict"]

\* TwitterMonitor.load_state(): `if state:` then state.get(...) three times
load_state(file) ==
    LET r == load_json_file(file)
    IN  IF r.raised # "none" THEN [raised |-> r.raised, state |-> LoadedState(NoFile)]
        ELSE IF r.value = "default" THEN [raised |-> "none", state |-> LoadedState(NoFile)]
        ELSE IF r.value = "list" THEN [raised |-> "AttributeError", state |-> LoadedState(NoFile)]
        ELSE [raised |-> "none", state |-> LoadedState(file)]

NoSave == [called |-> FALSE, raised |-> FALSE, io |-> "none", saved |-> FALSE]

InitPersist ==
    /\ MonitorInit
    /\ proc = NoProcess
    /\ \E file \in StateFiles :
          probe = [op |-> "persist", stage |-> "down", file |-> file, found |-> file.kind,
                   ctor_raised |-> "none", cycles |-> 0,
                   processed_tweets |-> {}, seen_content_hashes |-> {}, tge_tweets |-> <<>>,
                   last |-> NoSave]

\* TwitterMonitor(): the fields are set empty, then load_state(); an
\* exception leaves the constructor
Construct ==
    /\ probe.op = "persist" /\ probe.stage = "down"
    /\ \E r \in {load_state(probe.file)} :
          probe' = [probe EXCEPT
                      !.stage = IF r.raised # "none" THEN "fatal" ELSE "up",
                      !.found = probe.file.kind,
                      !.ctor_raised = r.raised,
                      !.cycles = 0,
                      !.processed_tweets = r.state.processed_tweets,
                      !.seen_content_hashes = r.state.seen_content_hashes,
                      !.tge_tweets = r.state.tge_tweets,
                      !.last = NoSave]
    /\ UNCHANGED <<cycleVars, proc>>

\* one process_tweets() call of the running process
PersistCycle ==
    /\ probe.op = "persist" /\ probe.stage = "up"
    /\ probe.cycles < MaxCycles
    /\ \E all_tweets \in Batches :
       \E io \in WriteOutcomes(all_tweets, probe.processed_tweets, 0) :
       \E r \in {process_tweets(all_tweets, FALSE, io,
                                [processed_tweets |-> probe.processed_tweets,
                                 seen_content_hashes |-> probe.seen_content_hashes,
                                 tge_tweets |-> probe.tge_tweets],
                                probe.file, 0)} :
          probe' = [probe EXCEPT
                      !.cycles = @ + 1,
                      !.processed_tweets = r.processed_tweets,
                      !.seen_content_hashes = r.seen_content_hashes,
                      !.tge_tweets = r.tge_tweets,
                      !.file = r.file,
                      !.last = [called |-> ~r.raised, raised |-> r.raised,
                                io |-> IF r.raised THEN "none" ELSE io,
                                saved |-> r.saved]]
    /\ UNCHANGED <<cycleVars, proc>>

\* the process ends; the file stays
Shutdown ==
    /\ probe.op = "persist" /\ probe.stage = "up"
    /\ probe.cycles > 0
    /\ probe' = [probe EXCEPT !.stage = "down"]
    /\ UNCHANGED <<cycleVars, proc>>

NextPersist == Construct \/ PersistCycle \/ Shutdown

SpecPersist == InitPersist /\ [][NextPersist]_vars

(* ------------------------------------------------------------------ *)
(* email_notifier.py: direct calls of send_tge_alert_email             *)
(* ------------------------------------------------------------------ *)
\* the news batches a call can be given: none, and the alerts of each way
\* the two feeds can answer
SinkNews == {<<>>} \cup {FetchAndMatchTable[ok1, ok2].alerts : ok1 \in BOOLEAN, ok2 \in BOOLEAN}

\* the Twitter batches: none, and the analysis of the tweet naming a company
SinkTweets == {<<>>, <<analyze_tweet_for_tge(FetchedCatalogue[2], {}, 0).analysis>>}

\* whether a call hands a message to the SMTP server: server.send_message is
\* reached with a non-empty batch whose subject and body were built
SinkSends(news, tweets, is_enabled) ==
    /\ is_enabled
    /\ Len(news) > 0 \/ Len(tweets) > 0
    /\ ~BodyRaises(news, tweets)

\* EmailNotifier(): enabled says whether user, password and recipient are
\* all configured
InitSink ==
    /\ MonitorInit
    /\ proc = NoProcess
    /\ \E configured \in BOOLEAN :
          probe = [op |-> "sink", enabled |-> configured, calls |-> 0, log |-> <<>>]

\* one call send_tge_alert_email(news_alerts, twitter_alerts); transport says
\* whether the SMTP server accepts the connection, the login and the message
SinkCall ==
    /\ probe.op = "sink"
    /\ probe.calls < MaxCalls
    /\ \E news \in SinkNews, tweets \in SinkTweets, smtp_ok \in BOOLEAN :
          probe' = [probe EXCEPT
                      !.calls = @ + 1,
                      !.log = Append(@, [news |-> Len(news), tweets |-> Len(tweets),
                                         result |-> send_tge_alert_email(news, tweets,
                                                                         probe.enabled, smtp_ok),
                                         sends |-> SinkSends(news, tweets, probe.enabled),
                                         transport |-> smtp_ok])]
    /\ UNCHANGED <<cycleVars, proc>>

NextSink == SinkCall

SpecSink == InitSink /\ [][NextSink]_vars

(* ------------------------------------------------------------------ *)
(* twitter_monitor.py: direct calls of analyze_tweet_for_tge           *)
(* ------------------------------------------------------------------ *)
\* retweets, likes and followers of the tweets analyzed: none, and enough
\* for both boosts
Engagements == {<<0, 0, 0>>, <<300, 40, 200000>>}

\* the tweet a fetch builds from an API tweet with this text and engagement
AnalyzedTweet(text, eng) ==
    FetchedTweet([id |-> "9", text |-> text, created_at |-> NoneDT,
                  retweet_count |-> eng[1], favorite_count |-> eng[2],
                  followers_count |-> eng[3], polarity |-> 0])

NoReturn == [called |-> FALSE, raised |-> FALSE, alerts |-> <<>>, analyses |-> <<>>,
             fetched |-> <<>>, before |-> {}, seen_before |-> {}]

InitAnalyze ==
    /\ MonitorInit
    /\ proc = NoProcess
    /\ probe = [op |-> "analyze", calls |-> 0, processed_tweets |-> {},
                seen_content_hashes |-> {}, log |-> <<>>, returned |-> NoReturn]

\* the texts of the tweets analyzed
AnalyzedTexts == ProbeTexts \cup {Raw_CornMinting}

\* one call analyze_tweet_for_tge(tweet) on the monitor
AnalyzeCall ==
    /\ probe.op = "analyze"
    /\ probe.calls < MaxCalls
    /\ \E text \in AnalyzedTexts, eng \in Engagements :
       \E r \in {analyze_tweet_for_tge(AnalyzedTweet(text, eng), probe.seen_content_hashes, 0)} :
          probe' = [probe EXCEPT
                      !.calls = @ + 1,
                      !.seen_content_hashes = r.seen,
                      !.log = Append(@, [mentioned_companies |-> r.analysis.mentioned_companies,
                                         found_keywords |-> r.analysis.found_keywords,
                                         relevance_score |-> r.analysis.relevance_score,
                                         is_tge_related |-> r.analysis.is_tge_related,
                                         is_duplicate |-> r.analysis.is_duplicate])]
    /\ UNCHANGED <<cycleVars, proc>>

\* one call process_tweets() on the monitor, with what it returned
ProcessCall ==
    /\ probe.op = "analyze"
    /\ probe.calls < MaxCalls
    /\ \E all_tweets \in Batches :
       \E r \in {process_tweets(all_tweets, FALSE, "ok",
                                [processed_tweets |-> probe.processed_tweets,
                                 seen_content_hashes |-> probe.seen_content_hashes,
                                 tge_tweets |-> <<>>],
                                NoFile, 0)} :
          probe' = [probe EXCEPT
                      !.calls = @ + 1,
                      !.processed_tweets = r.processed_tweets,
                      !.seen_content_hashes = r.seen_content_hashes,
                      !.returned = [called |-> TRUE, raised |-> r.raised,
                                    alerts |-> r.alerts, analyses |-> r.loop.analyses,
                                    fetched |-> r.unique_tweets,
                                    before |-> probe.processed_tweets,
                                    seen_before |-> probe.seen_content_hashes]]
    /\ UNCHANGED <<cycleVars, proc>>

NextAnalyze == AnalyzeCall \/ ProcessCall

SpecAnalyze == InitAnalyze /\ [][NextAnalyze]_vars

(* ------------------------------------------------------------------ *)
(* news_scraper.py: the rolling alert history of process_articles      *)
(* ------------------------------------------------------------------ *)
\* an alert kept in _history from an earlier cycle, published at hour t
StoredAlert(i, t) ==
    [title |-> Ttl_Airdrop, link |-> ToString(i), summary |-> Sum_Empty,
     published |-> Aware(t), source |-> NEWS_SOURCES[1],
     mentioned_companies |-> <<>>, found_keywords |-> <<Lower(K_airdrop)>>,
     relevance_score |-> 10000]

StoredNewsHistory(n, t) == [i \in 1..n |-> StoredAlert(i, t)]

\* the entries the feeds can list in a cycle: each names a company or a
\* keyword; the second was published long before the others
ListedEntries ==
    << [title |-> Ttl_CornTGE, link |-> "L1", summary |-> Sum_Launch,
        published |-> [kind |-> "aware", t |-> -1]],
       [title |-> Ttl_Airdrop, link |-> "L2", summary |-> Sum_Empty,
        published |-> [kind |-> "naive", t |-> -30]],
       [title |-> Ttl_Xai, link |-> "L3", summary |-> Sum_Empty,
        published |-> [kind |-> "aware", t |-> -3]] >>

ListedItems == [i \in 1..Len(ListedEntries) |-> ParsedEntry(ListedEntries[i], NEWS_SOURCES[1])]

\* a scraper whose history holds n alerts of earlier cycles
InitHistory ==
    /\ MonitorInit
    /\ proc = NoProcess
    /\ \E n \in {0, 498, 499, 500}, t \in {-2, -40} :
          probe = [op |-> "history", cycles |-> 0, history |-> StoredNewsHistory(n, t),
                   before |-> <<>>, alerts |-> <<>>]

\* one process_articles() call: the feeds list some of the entries
HistoryCycle ==
    /\ probe.op = "history"
    /\ probe.cycles < MaxCycles
    /\ \E S \in SUBSET (1..Len(ListedEntries)) :
       \E r \in {process_articles(FetchAndMatch(PickInOrder(ListedItems, S, 1)), FALSE,
                                  [total_processed |-> 0, total_tge_articles |-> 0,
                                   history |-> probe.history])} :
          probe' = [probe EXCEPT !.cycles = @ + 1,
                                 !.before = probe.history,
                                 !.alerts = r.alerts,
                                 !.history = r.history]
    /\ UNCHANGED <<cycleVars, proc>>

NextHistory == HistoryCycle

SpecHistory == InitHistory /\ [][NextHistory]_vars

(* ------------------------------------------------------------------ *)
(* utils.py: one call of a function wrapped by retry_on_failure        *)
(* ------------------------------------------------------------------ *)
MaxRetries == 2

\* the exception types the wrapped function raises in the model
RaisedTypes == {"TwitterServerError", "ValueError"}

\* the `exceptions` tuples of the decorator: the default and the one of
\* fetch_user_tweets
ExceptionTuples == {{"Exception"}, {"TwitterServerError"}}

\* `except exceptions as e` catches e: Exception is the base of both types
Caught(exceptions, e) == "Exception" \in exceptions \/ e \in exceptions

\* an except branch that sleeps after the last attempt as well
ExceptBranch_SleepsLast(p, e) ==
    IF p.attempt = p.max_retries
    THEN [p EXCEPT !.last_exception = e, !.status = "raised", !.propagated = e,
                   !.trace = Append(@, <<"sleep", p.current_delay>>)]
    ELSE [p EXCEPT !.last_exception = e,
                   !.trace = Append(@, <<"sleep", p.current_delay>>),
                   !.current_delay = @ * p.backoff_factor,
                   !.attempt = @ + 1]

\* the except branch of the wrapper for a caught exception e: raise on the
\* last attempt, otherwise sleep, stretch the delay and go round again
ExceptBranch(p, e) ==
    IF p.attempt = p.max_retries
    THEN [p EXCEPT !.last_exception = e, !.status = "raised", !.propagated = e]
    ELSE [p EXCEPT !.last_exception = e,
                   !.trace = Append(@, <<"sleep", p.current_delay>>),
                   !.current_delay = @ * p.backoff_factor,
                   !.attempt = @ + 1]

\* wrapper(*args) is entered: current_delay = delay, attempt 0
InitRetry ==
    /\ MonitorInit
    /\ proc = NoProcess
    /\ \E n \in 0..MaxRetries, d \in {3, 30}, b \in {1, 2}, ex \in ExceptionTuples :
          probe = [op |-> "retry", max_retries |-> n, delay |-> d, backoff_factor |-> b,
                   exceptions |-> ex, attempt |-> 0, current_delay |-> d,
                   last_exception |-> "none", status |-> "running",
                   propagated |-> "none", trace |-> <<>>]

\* func(*args) returns: the wrapper returns its result
AttemptReturns ==
    /\ probe.op = "retry" /\ probe.status = "running"
    /\ probe' = [probe EXCEPT !.status = "returned", !.trace = Append(@, <<"call", "ok">>)]
    /\ UNCHANGED <<cycleVars, proc>>

\* func(*args) raises e: the except branch when e is caught, else e leaves
\* the wrapper
AttemptRaises ==
    /\ probe.op = "retry" /\ probe.status = "running"
    /\ \E e \in RaisedTypes :
       \E called \in {[probe EXCEPT !.trace = Append(@, <<"call", e>>)]} :
          probe' = IF Caught(probe.exceptions, e)
                   THEN ExceptBranch(called, e)
                   ELSE [called EXCEPT !.status = "raised", !.propagated = e]
    /\ UNCHANGED <<cycleVars, proc>>

NextRetry == AttemptReturns \/ AttemptRaises

SpecRetry == InitRetry /\ [][NextRetry]_vars

(* ------------------------------------------------------------------ *)
(* twitter_monitor.py: the query list of one process_tweets call       *)
(* ------------------------------------------------------------------ *)
\* the four general queries of search_tge_keywords
GeneralQueries == [g \in 1..4 |-> [kind |-> "general", company |-> 0, keyword |-> g]]

RECURSIVE PairQueries(_, _)
\* for company in companies: for keyword in keywords: append the query
PairQueries(companies, keywords) ==
    IF Len(companies) = 0 THEN <<>>
    ELSE [j \in 1..Len(keywords) |->
             [kind |-> "pair", company |-> companies[1], keyword |-> keywords[j]]]
         \o PairQueries(Tail(companies), keywords)

\* a query list over every company and every keyword
search_queries_Uncapped(companies, keywords) ==
    PairQueries(companies, keywords) \o GeneralQueries

\* search_queries of search_tge_keywords: COMPANIES[:10] x TGE_KEYWORDS[:5],
\* then the general queries
search_queries(companies, keywords) ==
    PairQueries(Take(companies, 10), Take(keywords, 5)) \o GeneralQueries

\* a monitor configured with C companies, K keywords and A accounts, each
\* named by its place in its list
InitFanout ==
    /\ MonitorInit
    /\ proc = NoProcess
    /\ \E C \in {0, 1, 10, 11}, K \in {0, 1, 5, 6}, A \in 0..NumAccounts :
          probe = [op |-> "fanout", stage |-> "idle", i |-> 1,
                   companies |-> [c \in 1..C |-> c], keywords |-> [j \in 1..K |-> j],
                   accounts |-> [a \in 1..A |-> a], queries |-> <<>>,
                   rate_limited |-> FALSE, log |-> <<>>]

\* process_tweets enters monitor_accounts
BeginFanout ==
    /\ probe.op = "fanout" /\ probe.stage = "idle"
    /\ probe' = [probe EXCEPT !.stage = "accounts", !.i = 1, !.rate_limited = FALSE]
    /\ UNCHANGED <<cycleVars, proc>>

\* one turn of the loop of monitor_accounts
FanoutAccount ==
    /\ probe.op = "fanout" /\ probe.stage = "accounts"
    /\ probe.i <= Len(probe.accounts)
    /\ \E a1 \in ApiAnswers, a2 \in ApiAnswersAgain, a3 \in ApiAnswersAgain :
       \E r \in {fetch_user_tweets(<<a1, a2, a3>>, 0, probe.rate_limited, 3, <<>>)} :
          probe' = [probe EXCEPT
                      !.rate_limited = r.rate_limited,
                      !.log = Append(@, [kind |-> "account", company |-> 0,
                                         keyword |-> probe.accounts[probe.i],
                                         attempts |-> r.attempts]),
                      !.i = @ + 1]
    /\ UNCHANGED <<cycleVars, proc>>

\* monitor_accounts returns; search_tge_keywords builds search_queries
FanoutBuildQueries ==
    /\ probe.op = "fanout" /\ probe.stage = "accounts"
    /\ probe.i > Len(probe.accounts)
    /\ probe' = [probe EXCEPT !.stage = "searches", !.i = 1,
                              !.queries = search_queries(probe.companies, probe.keywords)]
    /\ UNCHANGED <<cycleVars, proc>>

\* one turn of the loop over search_queries; after the last one
\* search_tge_keywords returns
FanoutSearch ==
    /\ probe.op = "fanout" /\ probe.stage = "searches"
    /\ probe.i <= Len(probe.queries)
    /\ \E a1 \in ApiAnswers :
       \E r \in {search_tweets(a1, probe.rate_limited)} :
          probe' = [probe EXCEPT
                      !.rate_limited = r.rate_limited,
                      !.log = Append(@, [kind |-> probe.queries[probe.i].kind,
                                         company |-> probe.queries[probe.i].company,
                                         keyword |-> probe.queries[probe.i].keyword,
                                         attempts |-> 1]),
                      !.i = @ + 1,
                      !.stage = IF probe.i = Len(probe.queries) THEN "done" ELSE @]
    /\ UNCHANGED <<cycleVars, proc>>

NextFanout == BeginFanout \/ FanoutAccount \/ FanoutBuildQueries \/ FanoutSearch

SpecFanout == InitFanout /\ [][NextFanout]_vars

(* ------------------------------------------------------------------ *)
(* news_scraper.py: _normalize_feed_url                                *)
(* ------------------------------------------------------------------ *)
\* A url is the sequence of its parts: scheme and host, then "/" and path
\* segments.
Url_CoindeskEth    == <<"https://www.coindesk.com", "/", "arc", "/", "outboundfeeds", "/", "rss", "/", "category", "/", "ethereum">>
Url_CoindeskMain   == <<"https://www.coindesk.com", "/", "arc", "/", "outboundfeeds", "/", "rss">>
Url_EthereumFeed   == <<"https://blog.ethereum.org", "/", "feed">>
Url_EthereumEn     == <<"https://blog.ethereum.org", "/", "en", "/", "feed.xml">>
Url_FantomFeed     == <<"https://fantom.foundation", "/", "blog", "/", "feed">>
Url_FantomBlogFeed == <<"https://blog.fantom.foundation", "/", "blog", "/", "feed">>
Url_FantomRss      == <<"https://blog.fantom.foundation", "/", "rss", "/">>
Url_Decrypt        == <<"https://decrypt.co", "/", "feed">>
Url_MediumPub      == <<"https://medium.com", "/", "avalancheavax">>
Url_MediumHost     == <<"https://avalancheavax.medium.com">>
Url_MediumUser     == <<"https://medium.com", "/", "@telosfoundation">>

Slash(url) == url \o <<"/">>

\* FALLBACK_FEEDS, as written: key and mapped url
FALLBACK_FEEDS ==
    << <<Url_CoindeskEth, Url_CoindeskMain>>,
       <<Slash(Url_CoindeskEth), Url_CoindeskMain>>,
       <<Url_EthereumFeed, Url_EthereumEn>>,
       <<Slash(Url_EthereumFeed), Url_EthereumEn>>,
       <<Slash(Url_FantomFeed), Url_FantomRss>>,
       <<Slash(Url_FantomBlogFeed), Url_FantomRss>> >>

RECURSIVE RStripSlash(_)
\* url.rstrip("/")
RStripSlash(url) ==
    IF Len(url) > 0 /\ url[Len(url)] = "/" THEN RStripSlash(SubSeq(url, 1, Len(url) - 1))
    ELSE url

\* the three Medium patterns, matched against a url without trailing "/"
MediumHosts == {"https://avalancheavax.medium.com"}
MediumUsers == {"@telosfoundation"}
IsMediumHost(u) == Len(u) = 1 /\ u[1] \in MediumHosts
IsMediumPub(u) == Len(u) = 3 /\ u[1] = "https://medium.com" /\ u[2] = "/" /\ u[3] \notin MediumUsers
IsMediumUser(u) == Len(u) = 3 /\ u[1] = "https://medium.com" /\ u[2] = "/" /\ u[3] \in MediumUsers

\* _normalize_feed_url(url)
_normalize_feed_url(url) ==
    LET u == RStripSlash(url)
    IN  IF \E i \in 1..Len(FALLBACK_FEEDS) : FALLBACK_FEEDS[i][1] = u
        THEN DictGet(FALLBACK_FEEDS, u, url)
        ELSE IF IsMediumHost(u) THEN u \o <<"/", "feed">>
        ELSE IF IsMediumPub(u) \/ IsMediumUser(u)
             THEN <<"https://medium.com", "/", "feed", "/", u[3]>>
        ELSE url

\* the urls handed to fetch_feed: the keys of the table, the same urls with
\* and without the trailing slash, and urls outside the table
ProbeUrls ==
    {FALLBACK_FEEDS[i][1] : i \in 1..Len(FALLBACK_FEEDS)}
    \cup {Url_FantomFeed, Url_FantomBlogFeed, Url_Decrypt, Slash(Url_Decrypt),
          Url_MediumPub, Url_MediumHost, Slash(Url_MediumHost), Url_MediumUser}

InitNormalize ==
    /\ MonitorInit
    /\ proc = NoProcess
    /\ probe = [op |-> "normalize", calls |-> 0, log |-> <<>>]

\* fetch_feed(url) whose first request failed: fallback = _normalize_feed_url(url),
\* requested when it differs from url
NormalizeCall ==
    /\ probe.op = "normalize"
    /\ probe.calls < MaxCalls
    /\ \E url \in ProbeUrls :
       \E fallback \in {_normalize_feed_url(url)} :
          probe' = [probe EXCEPT !.calls = @ + 1,
                                 !.log = Append(@, [url |-> url, fallback |-> fallback,
                                                    retried |-> fallback # url])]
    /\ UNCHANGED <<cycleVars, proc>>

NextNormalize == NormalizeCall

SpecNormalize == InitNormalize /\ [][NextNormalize]_vars

(* ------------------------------------------------------------------ *)
(* Properties                                                          *)
(* ------------------------------------------------------------------ *)

AlertIds(analyses) == {analyses[i].tweet.id : i \in 1..Len(analyses)}

Keys(items) == {ItemKey(items[i]) : i \in 1..Len(items)}

HasCompany(text) == \E i \in 1..Len(COMPANIES) : Contains(Lower(text), Lower(COMPANIES[i]))

HasKeyword(text) == \E i \in 1..Len(TGE_KEYWORDS) : Contains(Lower(text), Lower(TGE_KEYWORDS[i]))

InWindow(dt, clock) == dt.kind \in {"aware", "naive"} /\ dt.t > clock - 24

\* C1: a tweet id that the state file held when the monitor was constructed
\* is skipped when the upstream returns it again: it is not taken up, not
\* analyzed, and no alert of the cycle carries it.
C1_ReloadedIdsSkipped ==
    /\ reloaded \subseteq processed_tweets
    /\ tw_obs.called =>
          /\ reloaded \subseteq tw_obs.before
          /\ tw_obs.taken \cap reloaded = {}
          /\ tw_obs.analyzed \cap reloaded = {}
          /\ AlertIds(tw_obs.alerts) \cap reloaded = {}
          /\ AlertIds(twitter_alerts) \cap reloaded = {}

\* a restarted monitor was handed, by the upstream, an id its state file held
C1_Witness ==
    /\ tw_obs.called
    /\ Ids(tw_obs.fetched) \cap reloaded # {}

\* C2: a feed item that was an alert of an earlier cycle of the same process
\* is not an alert of a later cycle.
C2_NoRepeatedNewsAlert ==
    ns_obs.called => Keys(ns_obs.alerts) \cap ns_obs.before = {}

\* C3: when the notification step is over, every fetched item that is new
\* (identity and content not seen before), inside the 24 hour window and
\* names a tracked company together with a TGE phrase is exactly one entry
\* of the alert lists the sink was called with.
C3_FreshRelevantItemAlertedOnce ==
    pc = "finish" =>
       /\ \A i \in 1..Len(tw_obs.fetched) :
             LET t == tw_obs.fetched[i]
             IN  (/\ t.id \notin tw_obs.before
                  /\ generate_content_hash(t.text) \notin tw_obs.seen_before
                  /\ InWindow(t.created_at, now)
                  /\ HasCompany(t.text) /\ HasKeyword(t.text))
                 => /\ cy_obs.sink_calls = 1
                    /\ Cardinality({j \in 1..Len(cy_obs.sink_tweets) :
                                      cy_obs.sink_tweets[j].tweet.id = t.id}) = 1
       /\ \A i \in 1..Len(ns_obs.all_items) :
             LET a == ns_obs.all_items[i]
             IN  (/\ ItemKey(a) \notin ns_obs.before
                  /\ InWindow(a.published, now)
                  /\ HasCompany(Blob(a)) /\ HasKeyword(Blob(a)))
                 => /\ cy_obs.sink_calls = 1
                    /\ Cardinality({j \in 1..Len(cy_obs.sink_news) :
                                      ItemKey(cy_obs.sink_news[j]) = ItemKey(a)}) = 1

\* C4: every alert returned by process_articles and by process_tweets names
\* at least one tracked company.
C4_AlertsNameACompany ==
    /\ \A i \in 1..Len(news_alerts) : Len(news_alerts[i].mentioned_companies) > 0
    /\ \A i \in 1..Len(twitter_alerts) : Len(twitter_alerts[i].mentioned_companies) > 0

\* C5: the score of every analysis and of every alert, news or Twitter, lies
\* between 0 and 1 (10000 ten-thousandths).
C5_ScoresWithinUnitInterval ==
    /\ \A i \in 1..Len(news_alerts) :
          news_alerts[i].relevance_score >= 0 /\ news_alerts[i].relevance_score <= 10000
    /\ \A i \in 1..Len(tw_obs.analyses) :
          tw_obs.analyses[i].relevance_score >= 0 /\ tw_obs.analyses[i].relevance_score <= 10000

\* C6: a call of is_content_duplicate answers False when the set does not hold
\* the digest of the text and the text was not given to the set before, and
\* True for a text given to the same set before; the call adds at most the
\* digest of its text to the set and removes nothing.
C6_CheckAndRecord ==
    (probe.op = "dedup" /\ probe.calls > 0) =>
       LET digest == generate_content_hash(probe.content)
       IN  /\ (digest \notin probe.before /\ probe.content \notin probe.given_before)
                 => ~probe.dup
           /\ probe.content \in probe.given_before => probe.dup
           /\ \A t \in probe.given : is_content_duplicate(t, probe.seen).dup
           /\ probe.before \subseteq probe.seen
           /\ probe.seen \ probe.before \subseteq {digest}

\* a text was given a second time to a set that did not hold its digest at
\* first
C6_Witness ==
    /\ probe.op = "dedup"
    /\ probe.calls > 1
    /\ probe.content \in probe.given_before
    /\ probe.dup
    /\ generate_content_hash(probe.content) \notin probe.start

\* C7: after the Twitter step, a fetched tweet that was not processed before
\* and is older than the 24 hour window was not analyzed, is not an alert, is
\* not in tge_tweets nor in get_recent_tge_tweets, and its id is in
\* processed_tweets.
C7_OldTweetRecordedNotAnalyzed ==
    (tw_obs.called /\ pc \in {"notify", "finish"}) =>
       \A i \in 1..Len(tw_obs.fetched) :
          LET t == tw_obs.fetched[i]
          IN  (/\ t.id \notin tw_obs.before
               /\ t.created_at.kind \in {"aware", "naive"}
               /\ ~InWindow(t.created_at, now))
              => /\ t.id \notin tw_obs.analyzed
                 /\ t.id \notin AlertIds(twitter_alerts)
                 /\ t.id \notin AlertIds(tge_tweets)
                 /\ t.id \notin AlertIds(get_recent_tge_tweets(tge_tweets, 24, now).value)
                 /\ t.id \in processed_tweets

\* C8: in every recency comparison of the Twitter step both sides, the
\* timestamp of the item and the cutoff, are timezone-aware, and the
\* comparison yields a boolean.
C8_RecencyComparisonsAware ==
    tw_obs.called =>
       \A i \in 1..Len(tw_obs.fetched) :
          LET t == tw_obs.fetched[i]
              created == _to_aware_utc(t.created_at)
          IN  (t.id \in tw_obs.taken /\ created.kind # "none")
              => /\ created.kind = "aware"
                 /\ RecentCutoff(now, 24).kind = "aware"
                 /\ ~TweetIsRecent(t, now).raised

BoolToNat(b) == IF b THEN 1 ELSE 0

\* C10: when a source step of a cycle raised, that source contributed no
\* alert and error_count grew by exactly one for it; the other source step
\* ran all the same; the sink was called with the alerts of the cycle
\* whenever there were any (error_count growing once more only when the
\* notification failed); and the cycle went on to its end and returned.
C10_SourceFailureContained ==
    /\ (pc = "twitter" /\ cy_obs.news_raised) =>
          /\ news_alerts = <<>>
          /\ error_count = cy_obs.err_start + 1
    /\ (pc = "notify" /\ (cy_obs.news_raised \/ cy_obs.twitter_raised)) =>
          /\ cy_obs.news_done /\ cy_obs.twitter_done
          /\ cy_obs.news_raised => news_alerts = <<>>
          /\ cy_obs.twitter_raised => twitter_alerts = <<>>
          /\ error_count = cy_obs.err_start + BoolToNat(cy_obs.news_raised)
                           + BoolToNat(cy_obs.twitter_raised)
    /\ ((pc = "finish" \/ cy_obs.ran) /\ (cy_obs.news_raised \/ cy_obs.twitter_raised)) =>
          /\ cy_obs.news_done /\ cy_obs.twitter_done
          /\ cy_obs.news_raised => news_alerts = <<>>
          /\ cy_obs.twitter_raised => twitter_alerts = <<>>
          /\ error_count = cy_obs.err_start + BoolToNat(cy_obs.news_raised)
                           + BoolToNat(cy_obs.twitter_raised)
                           + BoolToNat(cy_obs.sink_calls = 1 /\ ~cy_obs.sink_ok)
          /\ (news_alerts # <<>> \/ twitter_alerts # <<>>)
                => /\ cy_obs.sink_calls = 1
                   /\ cy_obs.sink_news = news_alerts
                   /\ cy_obs.sink_tweets = twitter_alerts
          /\ (news_alerts = <<>> /\ twitter_alerts = <<>>) => cy_obs.sink_calls = 0
    /\ cy_obs.ran => pc = "idle"
    /\ pc \in {"idle", "news", "twitter", "notify", "finish"}

\* a cycle finished in which the Twitter step raised and the news step
\* delivered alerts, which went to the sink
C10_Witness ==
    /\ cy_obs.ran
    /\ cy_obs.twitter_raised /\ ~cy_obs.news_raised
    /\ news_alerts # <<>>
    /\ cy_obs.sink_calls = 1
    /\ error_count > cy_obs.err_start

\* C11: in every execution of the cycle body the sink is invoked exactly once
\* when the combined alert lists are non-empty and not at all when both are
\* empty, and never before both source steps are over.
C11_OneNotificationPerCycle ==
    /\ cy_obs.sink_calls \in {0, 1}
    /\ cy_obs.sink_calls = 1 =>
          /\ cy_obs.news_done /\ cy_obs.twitter_done
          /\ pc \in {"finish", "idle"}
          /\ cy_obs.sink_news = news_alerts /\ cy_obs.sink_tweets = twitter_alerts
    /\ (pc = "finish" \/ cy_obs.ran) =>
          (cy_obs.sink_calls = 1 <=> (news_alerts # <<>> \/ twitter_alerts # <<>>))

\* the second cycle of a process ended after one call of the sink with the
\* news alerts of that cycle
C11_Witness ==
    /\ cy_obs.ran
    /\ cycle_count = 2
    /\ cy_obs.sink_calls = 1
    /\ cy_obs.sink_news # <<>>

\* C12: a call of the sink that fails leaves processed_tweets,
\* seen_content_hashes and the state file exactly as they were, adds one to
\* error_count, and the cycle goes on to its end; the end of the cycle leaves
\* them alone as well.
C12_SinkFailureKeepsBookkeeping ==
    [][/\ (pc = "notify" /\ cy_obs'.sink_calls = cy_obs.sink_calls + 1 /\ ~cy_obs'.sink_ok)
          => /\ processed_tweets' = processed_tweets
             /\ seen_content_hashes' = seen_content_hashes
             /\ state_file' = state_file
             /\ error_count' = error_count + 1
             /\ pc' = "finish"
       /\ pc = "finish"
          => /\ processed_tweets' = processed_tweets
             /\ seen_content_hashes' = seen_content_hashes
             /\ state_file' = state_file
             /\ error_count' = error_count
             /\ pc' = "idle" /\ cy_obs'.ran]_vars

\* a cycle ended whose sink call failed while the monitor held processed ids,
\* written to the state file by that cycle
C12_Witness ==
    /\ cy_obs.ran
    /\ cy_obs.sink_calls = 1 /\ ~cy_obs.sink_ok
    /\ processed_tweets # {}
    /\ tw_obs.saved
    /\ state_file.kind = "ok" /\ state_file.processed_tweets = processed_tweets

\* what the cycle body hands to the sink: send_tge_alert_email(news_alerts,
\* twitter_alerts)
SinkArguments == [news_alerts |-> cy_obs.sink_news, twitter_alerts |-> cy_obs.sink_tweets]

\* C17: whenever the sink is invoked in a cycle, the data handed to it carries
\* rate_limited, True when a Twitter query of the cycle was throttled and False
\* otherwise.
C17_RateLimitFlagReachesSink ==
    cy_obs.sink_calls = 1 =>
       /\ "rate_limited" \in DOMAIN SinkArguments
       /\ SinkArguments["rate_limited"] = rate_limited

\* C20: in a cycle where exactly one feed fails and the other answers, the
\* news step adds exactly one to error_count.
C20_OneErrorPerFailingFeed ==
    (pc = "twitter" /\ ns_obs.called /\ ~ns_obs.raised /\ Cardinality(ns_obs.failed) = 1)
       => error_count = cy_obs.err_start + 1

\* C13: one call of run_monitoring_cycle executes the body at most 3 times;
\* an attempt that returns ends the call, with no further attempt; the call
\* raises to its caller only after 3 attempts raised.
C13_BoundedCycleRetry ==
    proc.where # "none" =>
       /\ proc.bodies <= 3 /\ proc.attempt <= 2
       /\ proc.where = "body" =>
             (proc.bodies = proc.attempt + 1 /\ proc.raises = proc.attempt
              /\ proc.outcome = "none")
       /\ proc.outcome = "returned" =>
             (proc.where # "body" /\ proc.raises = proc.bodies - 1)
       /\ proc.outcome = "raised" =>
             (proc.where # "body" /\ proc.bodies = 3 /\ proc.raises = 3
              /\ proc.slept = <<30, 60>>)

\* a scheduled call raised to the main loop after its third attempt
C13_Witness ==
    /\ proc.where = "loop"
    /\ proc.caller = "scheduled"
    /\ proc.outcome = "raised"
    /\ proc.bodies = 3

\* C14: every call of run_monitoring_cycle ends, by returning or by raising,
\* and a body goes through its blocks in the order news, Twitter,
\* notification, end (or starts over as a new attempt).
C14_CycleEnds ==
    /\ (proc.where = "body") ~> (proc.where # "body")
    /\ [][(proc.where = "body" /\ proc'.where = "body" /\ proc'.phase # proc.phase)
            => \/ <<proc.phase, proc'.phase>> \in {<<"news", "twitter">>,
                                                   <<"twitter", "notify">>,
                                                   <<"notify", "finish">>}
               \/ (proc'.phase = "news" /\ proc'.attempt = proc.attempt + 1)]_vars

\* the third attempt of a call reached the end of its body after a throttled
\* Twitter block and failures counted on the way
C14_Witness ==
    /\ proc.where = "body"
    /\ proc.attempt = 2
    /\ proc.phase = "finish"
    /\ proc.rate_limited
    /\ proc.error_count >= 5

\* C15: a call of run_monitoring_cycle that raised after its retries, the
\* initial one as well as a scheduled one, shows in error_count and leaves the
\* process in its main loop (or stopped by the flag): the process never exits
\* on it.
C15_FailedCycleKeepsProcess ==
    /\ proc.where # "exited"
    /\ proc.outcome = "raised" =>
          (proc.error_count >= 3
           /\ proc.where \in {"loop", "pending", "summary", "body", "stopped"})

Throttled(log) == \E k \in 1..Len(log) : log[k].answer = "TooManyRequests"

\* C16: a query answered with TooManyRequests returns nothing after one
\* attempt and no sleep; every account and every search query of the call is
\* attempted whatever the earlier ones were answered; and once the queries are
\* over, rate_limited is True exactly when one of them was throttled, whatever
\* the flag was before the call.
C16_RateLimitNeverBlocks ==
    (probe.op = "fetch" /\ probe.stage # "idle") =>
       /\ \A k \in 1..Len(probe.log) :
             probe.log[k].answer = "TooManyRequests"
                => (probe.log[k].attempts = 1 /\ probe.log[k].slept = <<>>
                    /\ probe.log[k].tweets = 0)
       /\ probe.stage = "accounts" => Len(probe.log) = probe.i - 1
       /\ probe.stage = "searches" => Len(probe.log) = NumAccounts + probe.i - 1
       /\ probe.stage = "done" => Len(probe.log) = NumAccounts + NumSearches
       /\ probe.rate_limited <=> Throttled(probe.log)

\* the first query of a call was throttled, a later one returned tweets, and
\* all queries were made
C16_Witness ==
    /\ probe.op = "fetch" /\ probe.stage = "done"
    /\ probe.log[1].answer = "TooManyRequests"
    /\ probe.all_tweets > 0
    /\ probe.rate_limited
    /\ ~probe.carried

\* C18: an account query answered with a server error is attempted 3 times in
\* all, after sleeps of 3 s and 6 s, when the error persists; a TooManyRequests
\* or Forbidden answer is attempted once.
C18_ServerErrorsRetried ==
    probe.op = "fetch" =>
       \A k \in 1..Len(probe.log) :
          /\ (probe.log[k].kind = "account" /\ probe.log[k].answer = "TwitterServerError")
                => /\ probe.log[k].attempts > 1
                   /\ probe.log[k].again = {"TwitterServerError"}
                         => (probe.log[k].attempts = 3 /\ probe.log[k].slept = <<3, 6>>)
          /\ probe.log[k].answer \in {"TooManyRequests", "Forbidden"}
                => probe.log[k].attempts = 1

FeedFailed(e) == e.answer \in {"unreachable", "http_error"}

FallbackAnswered(e) == e.has_fallback /\ e.fallback_answer \in {"ok", "malformed"}

ParsedFallback == [j \in 1..Len(FallbackEntries) |-> ParsedEntry(FallbackEntries[j], "fallback")]

\* every url of the list is fetched in turn and nothing is raised; when the
\* call has returned, each dated item of a healthy url is in the result
\* (under the default limit, which these feeds do not reach)
FeedsIsolated ==
    /\ probe.raised = "none" /\ probe.stage # "raised"
    /\ Len(probe.log) = probe.i - 1
    /\ \A k \in 1..Len(probe.log) : probe.log[k].f = probe.urls[k]
    /\ probe.stage = "returned" =>
          /\ Len(probe.log) = Len(probe.urls)
          /\ \A k \in 1..Len(probe.log) :
                (probe.log[k].answer = "ok" /\ probe.max_results = 100) =>
                   \A j \in 1..Len(probe.log[k].items) :
                      probe.log[k].items[j].published.kind # "none" =>
                         \E m \in 1..Len(probe.result) :
                            ItemKey(probe.result[m]) = ItemKey(probe.log[k].items[j])

\* C19: whatever urls of the list fail, fetch_rss_feeds fetches every url,
\* raises nothing and returns the items of the healthy urls. A url that is
\* unreachable or answers with an HTTP error contributes nothing, unless it
\* has a normalized fallback url that answers, whose items it contributes; a
\* url with a malformed payload contributes what the parser kept of it.
C19_EndpointIsolation ==
    probe.op = "feeds" =>
       /\ FeedsIsolated
       /\ \A k \in 1..Len(probe.log) :
             LET e == probe.log[k]
             IN  /\ e.answer = "ok" => e.items = ParsedFeeds[e.f]
                 /\ (FeedFailed(e) /\ ~FallbackAnswered(e)) => e.items = <<>>
                 /\ (FeedFailed(e) /\ e.has_fallback /\ e.fallback_answer = "ok")
                       => e.items = ParsedFallback
                 /\ (FeedFailed(e) /\ e.has_fallback /\ e.fallback_answer = "malformed")
                       => e.items = Take(ParsedFallback, 1)
                 /\ e.answer = "malformed" => e.items = Take(ParsedFeeds[e.f], 1)
                 /\ e.answer = "malformed_empty" => e.items = <<>>

\* the first url was unreachable and has no fallback, the second was healthy,
\* and the call returned the second's items
C19_Witness ==
    /\ probe.op = "feeds" /\ probe.stage = "returned"
    /\ probe.log[1].answer = "unreachable" /\ ~probe.log[1].has_fallback
    /\ probe.log[1].items = <<>>
    /\ probe.log[2].answer = "ok" /\ probe.log[2].f = 1
    /\ probe.max_results = 100
    /\ Len(probe.result) = 2

\* C19 as stated: every url that fails (unreachable, HTTP error or malformed
\* payload) contributes an empty result
C19_FailingUrlContributesEmpty ==
    probe.op = "feeds" =>
       /\ FeedsIsolated
       /\ \A k \in 1..Len(probe.log) :
             probe.log[k].answer # "ok" => probe.log[k].items = <<>>

\* C21: fetch_feed requests the original url first; it requests the
\* normalized url, once, exactly when the first request failed and the
\* normalized url differs from the original; it returns the entries of the
\* first request that succeeded and nothing when none did; no more than two
\* requests are made for a feed.
C21_SingleFallbackAttempt ==
    probe.op = "feeds" =>
       \A k \in 1..Len(probe.log) :
          LET e == probe.log[k]
              first == FeedResponse(e.answer, FeedEntries[e.f])
              second == FeedResponse(e.fallback_answer, FallbackEntries)
          IN  /\ e.requested \in {<<"original">>, <<"original", "fallback">>}
              /\ e.requested = <<"original", "fallback">>
                    <=> (first.raised # "none" /\ e.has_fallback)
              /\ first.raised = "none"
                    => e.items = [j \in 1..Len(first.entries) |->
                                     ParsedEntry(first.entries[j], NEWS_SOURCES[e.f])]
              /\ (first.raised # "none" /\ e.has_fallback /\ second.raised = "none")
                    => e.items = [j \in 1..Len(second.entries) |->
                                     ParsedEntry(second.entries[j], "fallback")]
              /\ (first.raised # "none" /\ (~e.has_fallback \/ second.raised # "none"))
                    => e.items = <<>>

\* a feed whose url answered with an HTTP error and whose normalized url
\* answered with a feed
C21_Witness ==
    /\ probe.op = "feeds" /\ Len(probe.log) > 0
    /\ probe.log[1].answer = "http_error" /\ probe.log[1].has_fallback
    /\ probe.log[1].fallback_answer = "ok"
    /\ probe.log[1].requested = <<"original", "fallback">>
    /\ probe.log[1].items = ParsedFallback

\* C23: in one process, no step other than the construction of a new monitor
\* removes an id from processed_tweets or a digest from seen_content_hashes,
\* whether the process_tweets call returns, raises or was rate limited.
C23_DedupSetsOnlyGrow ==
    [][Restart \/ (/\ processed_tweets \subseteq processed_tweets'
                   /\ seen_content_hashes \subseteq seen_content_hashes')]_vars

\* a rate-limited process_tweets call that raised, on a monitor that had
\* already processed ids, and took up more
C23_Witness ==
    /\ tw_obs.called /\ tw_obs.raised /\ rate_limited
    /\ tw_obs.before # {}
    /\ tw_obs.taken # {}
    /\ tw_obs.before \subseteq processed_tweets
    /\ tw_obs.taken \subseteq processed_tweets

\* get_stats() of the two sources
NewsStats(processed, tge) == [total_processed |-> processed, total_tge_articles |-> tge]

TwitterStats(processed, history, seen) ==
    [total_processed |-> Cardinality(processed), total_tge_tweets |-> Len(history),
     unique_content_hashes |-> Cardinality(seen)]

\* C25: when the last process_tweets call saved its state, a new process
\* started from the files has the same processed ids and seen digests, its
\* recent-alert queries return what they returned before the restart without
\* raising, and get_stats of both sources returns the same counts.
C25_StateRoundTrips ==
    [][(Restart /\ tw_obs.called /\ tw_obs.saved) =>
          /\ processed_tweets' = processed_tweets
          /\ seen_content_hashes' = seen_content_hashes
          /\ ~get_recent_tge_tweets(tge_tweets', 24, now).raised
          /\ get_recent_tge_tweets(tge_tweets', 24, now)
                = get_recent_tge_tweets(tge_tweets, 24, now)
          /\ get_recent_tge_articles(news_history', 24, now)
                = get_recent_tge_articles(news_history, 24, now)
          /\ NewsStats(total_processed', total_tge_articles')
                = NewsStats(total_processed, total_tge_articles)
          /\ TwitterStats(processed_tweets', tge_tweets', seen_content_hashes')
                = TwitterStats(processed_tweets, tge_tweets, seen_content_hashes)]_vars

C24_PersistenceNeverFatal ==
    probe.op = "persist" =>
       /\ probe.stage # "fatal"
       /\ (probe.stage = "up" /\ probe.cycles = 0 /\ probe.found # "ok")
             => /\ probe.processed_tweets = {}
                /\ probe.seen_content_hashes = {}
                /\ probe.tge_tweets = <<>>
       /\ probe.last.io \in {"fail", "torn"}
             => (~probe.last.raised /\ ~probe.last.saved)

\* C26: the signal handler changes nothing but the running flag, so the
\* cycle in progress goes on where it was; and once the flag is cleared no
\* execution of the cycle body starts, neither a new call nor a new attempt.
C26_GracefulShutdown ==
    [][/\ (proc.running /\ ~proc'.running) => (proc' = [proc EXCEPT !.running = FALSE])
       /\ ~proc.running =>
             ~(proc'.where = "body"
               /\ (proc.where # "body" \/ proc'.bodies # proc.bodies))]_vars

\* C27: at most one activity is in progress at any time: a monitoring cycle
\* (the initial one, a scheduled one, or one in a retry attempt) or the daily
\* summary, never two of them.
C27_CyclesNeverOverlap ==
    proc.where # "none" =>
       /\ proc.active_cycles + proc.active_summaries <= 1
       /\ proc.active_cycles = 1 <=> proc.where = "body"
       /\ proc.active_summaries = 1 <=> proc.where = "summary"

\* a scheduled cycle is in its second attempt while the daily summary, due
\* in the same pass, waits for it
C27_Witness ==
    /\ proc.where = "body" /\ proc.caller = "scheduled"
    /\ proc.attempt = 1
    /\ proc.due = <<"summary">>
    /\ proc.active_cycles = 1 /\ proc.active_summaries = 0

\* C28: a call of send_tge_alert_email with no news alert and no Twitter
\* alert returns True and sends nothing, whether the notifier is enabled or
\* not.
C28_EmptyBatchSucceeds ==
    probe.op = "sink" =>
       \A k \in 1..Len(probe.log) :
          (probe.log[k].news = 0 /\ probe.log[k].tweets = 0)
             => (probe.log[k].result /\ ~probe.log[k].sends)

\* no two items of the result have the same key, the result is ordered
\* newest first, and each of its items is one of the fetched items
ResultShape(result, all_items) ==
    /\ \A i \in 1..Len(result) : \A j \in 1..Len(result) :
          i < j => /\ ItemKey(result[i]) # ItemKey(result[j])
                   /\ result[i].published.t >= result[j].published.t
    /\ \A i \in 1..Len(result) : \E k \in 1..Len(all_items) : all_items[k] = result[i]

\* C29: the list fetch_rss_feeds returns has no two items with the same
\* link (or the same source and title when there is no link), is ordered by
\* published newest first, holds only items of the fetched feeds, and has at
\* most max_results items when max_results is positive.
C29_ResultShape ==
    (probe.op = "feeds" /\ probe.stage = "returned") =>
       /\ ResultShape(probe.result, probe.all_items)
       /\ probe.max_results > 0 => Len(probe.result) <= probe.max_results

\* a call with max_results 2 whose feeds gave the same item twice and more
\* than two different dated items
C29_Witness ==
    /\ probe.op = "feeds" /\ probe.stage = "returned"
    /\ probe.max_results = 2 /\ Len(probe.result) = 2
    /\ Len(fetch_rss_feeds(probe.all_items, 0)) > 2
    /\ \E i \in 1..Len(probe.all_items) : \E j \in 1..Len(probe.all_items) :
          i < j /\ ItemKey(probe.all_items[i]) = ItemKey(probe.all_items[j])

\* C29 as stated: the list has at most max_results items, whatever
\* max_results is
C29_AtMostMaxResults ==
    (probe.op = "feeds" /\ probe.stage = "returned") =>
       /\ ResultShape(probe.result, probe.all_items)
       /\ Len(probe.result) <= probe.max_results

C31_DuplicateSuppressedButCounted ==
    (probe.op = "analyze" /\ probe.returned.called) =>
       \A i \in 1..Len(probe.returned.fetched) :
          LET t == probe.returned.fetched[i]
          IN  (/\ t.id \notin probe.returned.before
               /\ generate_content_hash(t.text) \in probe.returned.seen_before)
              => /\ t.id \in probe.processed_tweets
                 /\ \E k \in 1..Len(probe.returned.analyses) :
                       /\ probe.returned.analyses[k].tweet.id = t.id
                       /\ probe.returned.analyses[k].is_duplicate
                       /\ probe.returned.analyses[k].relevance_score = 0
                       /\ ~probe.returned.analyses[k].is_tge_related
                 /\ \A k \in 1..Len(probe.returned.alerts) :
                       probe.returned.alerts[k].tweet.id # t.id

\* the entries of a sequence of alerts whose key is not among those of kept
DroppedFrom(entries, kept) ==
    {entries[i] : i \in {j \in 1..Len(entries) :
        \A k \in 1..Len(kept) : ItemKey(kept[k]) # ItemKey(entries[j])}}

\* C32: after a process_articles call, every entry kept in the alert history
\* was published no earlier than every entry (of the call's alerts and of
\* the history before the call) that was dropped from it.
C32_EvictionByTimestamp ==
    (probe.op = "history" /\ probe.cycles > 0) =>
       \A d \in DroppedFrom(probe.alerts \o probe.before, probe.history) :
          \A k \in 1..Len(probe.history) :
             probe.history[k].published.t >= d.published.t

RECURSIVE Pow(_, _)
Pow(b, k) == IF k = 0 THEN 1 ELSE b * Pow(b, k - 1)

\* the calls and the sleeps of a wrapper trace, in order
CallsOf(trace) == SelectSeq(trace, LAMBDA ev : ev[1] = "call")
SleepsOf(trace) == SelectSeq(trace, LAMBDA ev : ev[1] = "sleep")

\* C33: a call of a function wrapped by retry_on_failure(n, delay, backoff,
\* exceptions) calls the function at most n + 1 times; a successful call is
\* the last event and its result is returned; every sleep stands between a
\* failed call that was caught and the next call, the k-th lasting
\* delay * backoff^(k-1); after n + 1 caught failures the last exception is
\* raised with no sleep after the last call; an exception that is not caught
\* leaves the wrapper from the call that raised it, with no sleep and no
\* further call.
C33_RetrySemantics ==
    probe.op = "retry" =>
       LET tr == probe.trace
           calls == CallsOf(tr)
           sleeps == SleepsOf(tr)
       IN  /\ Len(calls) <= probe.max_retries + 1
           /\ \A i \in 1..Len(tr) :
                 /\ (tr[i] = <<"call", "ok">>) => (i = Len(tr) /\ probe.status = "returned")
                 /\ (tr[i][1] = "call" /\ tr[i][2] # "ok" /\ ~Caught(probe.exceptions, tr[i][2]))
                       => (i = Len(tr) /\ probe.status = "raised" /\ probe.propagated = tr[i][2])
                 /\ (tr[i][1] = "sleep")
                       => /\ i > 1 /\ tr[i - 1][1] = "call"
                          /\ Caught(probe.exceptions, tr[i - 1][2])
                          /\ (i < Len(tr) => tr[i + 1][1] = "call")
                          /\ (i = Len(tr) => probe.status = "running")
           /\ \A k \in 1..Len(sleeps) :
                 sleeps[k][2] = probe.delay * Pow(probe.backoff_factor, k - 1)
           /\ (probe.status = "returned") => (Len(tr) > 0 /\ tr[Len(tr)] = <<"call", "ok">>)
           /\ (probe.status = "raised" /\ Caught(probe.exceptions, probe.propagated))
                 => /\ Len(calls) = probe.max_retries + 1
                    /\ Len(sleeps) = probe.max_retries
                    /\ tr[Len(tr)] = <<"call", probe.propagated>>
                    /\ \A i \in 1..Len(calls) : Caught(probe.exceptions, calls[i][2])
           /\ (probe.status = "running") => Len(sleeps) = Len(calls)

\* a wrapper with two retries that failed three times with a caught
\* exception, slept twice with a doubled delay and raised the last exception
C33_Witness ==
    /\ probe.op = "retry" /\ probe.max_retries = 2 /\ probe.backoff_factor = 2
    /\ probe.status = "raised" /\ probe.propagated = "TwitterServerError"
    /\ Len(CallsOf(probe.trace)) = 3
    /\ SleepsOf(probe.trace) = << <<"sleep", probe.delay>>, <<"sleep", 2 * probe.delay>> >>

\* C34: when the queries of a process_tweets call are done, the call made
\* one account query per configured account, all before the first search,
\* then min(C, 10) * min(K, 5) + 4 searches, at most 54; every query was
\* attempted once and none was made twice, whatever the API answered.
C34_BoundedFanout ==
    (probe.op = "fanout" /\ probe.stage = "done") =>
       LET log == probe.log
           A == Len(probe.accounts)
           searches == Len(log) - A
       IN  /\ Len(log) >= A
           /\ \A i \in 1..Len(log) : (log[i].kind = "account") <=> (i <= A)
           /\ \A a \in 1..A : \E i \in 1..A : log[i].keyword = a
           /\ searches = Min(Len(probe.companies), 10) * Min(Len(probe.keywords), 5) + 4
           /\ searches <= 54
           /\ \A i \in 1..Len(log) : log[i].attempts = 1
           /\ \A i, j \in 1..Len(log) :
                 (i # j) => [log[i] EXCEPT !.attempts = 1] # [log[j] EXCEPT !.attempts = 1]

\* a call with 11 companies, 6 keywords and two accounts that made its 2 + 54
\* queries while the API throttled it
C34_Witness ==
    /\ probe.op = "fanout" /\ probe.stage = "done"
    /\ Len(probe.companies) = 11 /\ Len(probe.keywords) = 6 /\ Len(probe.accounts) = 2
    /\ Len(probe.log) = 56
    /\ probe.rate_limited

\* C35: for every url that is a key of FALLBACK_FEEDS as written, the
\* fallback worked out for a failed fetch of it is the url the table maps it
\* to, and the fetch is retried on that url.
C35_FallbackTableLookup ==
    probe.op = "normalize" =>
       \A k \in 1..Len(probe.log) :
          \A i \in 1..Len(FALLBACK_FEEDS) :
             (probe.log[k].url = FALLBACK_FEEDS[i][1])
                => /\ probe.log[k].fallback = FALLBACK_FEEDS[i][2]
                   /\ probe.log[k].retried

C37_PersistedTracksMemory ==
    (/\ pc = "idle" /\ cy_obs.ran /\ cy_obs.twitter_done
     /\ (tw_obs.raised \/ tw_obs.saved))
       => /\ state_file.kind = "ok"
          /\ processed_tweets \subseteq state_file.processed_tweets
          /\ seen_content_hashes \subseteq state_file.seen_content_hashes

\* the step starts an execution of the cycle body; the step ends one by a
\* return; the step ends one by an exception of the body
BodyStarts == proc'.where = "body" /\ (proc.where # "body" \/ proc'.bodies # proc.bodies)
BodyReturned == proc.where = "body" /\ proc'.where # "body" /\ proc'.outcome = "returned"
BodyRaised == proc.where = "body" /\ proc'.raises = proc.raises + 1

\* what the blocks of the execution that ends added to error_count
BlockErrors == BoolToNat(proc.news_raised) + BoolToNat(proc.twitter_raised)
               + BoolToNat(proc.sink = "failed")

\* the counters of CryptoTGEMonitor never decrease, and cycle_count goes up
\* by one with every execution of the body and at no other step
CountersStep ==
    /\ proc'.error_count >= proc.error_count
    /\ proc'.total_alerts_sent >= proc.total_alerts_sent
    /\ proc'.cycle_count = proc.cycle_count + BoolToNat(BodyStarts)

\* total_alerts_sent of the execution that ends
SentStep ==
    (BodyReturned \/ BodyRaised)
       => proc'.total_alerts_sent = proc.sent_start + BoolToNat(proc.sink = "ok")

\* C38 (as stated): in every execution of the cycle body total_alerts_sent
\* goes up by one when the sink was called and returned success and is
\* unchanged otherwise, error_count goes up by one per source that raised and
\* by one when the sink failed, and by nothing else; neither counter
\* decreases; cycle_count goes up by one per execution.
C38_CountersAsStated ==
    [][proc.where # "none" =>
         /\ CountersStep
         /\ SentStep
         /\ (BodyReturned \/ BodyRaised)
               => proc'.error_count = proc.err_start + BlockErrors]_vars

\* C38 (amended): as above, and error_count goes up by one more in an
\* execution that ends with an exception of the body (the outer handler).
C38_OrchestratorCounters ==
    [][proc.where # "none" =>
         /\ CountersStep
         /\ SentStep
         /\ BodyReturned => proc'.error_count = proc.err_start + BlockErrors
         /\ BodyRaised => proc'.error_count = proc.err_start + BlockErrors + 1]_vars

\* a process whose cycle raised after a source had raised and the sink had
\* succeeded, and whose retried execution returned: three errors in all
C38_Witness ==
    /\ proc.where \in {"loop", "pending"} /\ proc.outcome = "returned"
    /\ proc.raises = 1 /\ proc.bodies = 2 /\ proc.cycle_count = 2
    /\ proc.total_alerts_sent = 2
    /\ proc.error_count = 3

\* C39: an analysis that is not a duplicate and names a company and a
\* keyword scores at least 0.5, so the threshold of 0.3 never decides:
\* is_tge_related is true exactly when both lists are non-empty.
C39_ThresholdNeverRejects ==
    probe.op = "analyze" =>
       \A k \in 1..Len(probe.log) :
          LET a == probe.log[k]
              matched == Len(a.mentioned_companies) > 0 /\ Len(a.found_keywords) > 0
          IN  ~a.is_duplicate =>
                 /\ matched => a.relevance_score >= 5000
                 /\ a.is_tge_related <=> matched

\* an analysis of a tweet without engagement that names one company and one
\* keyword of the default weight: its score is 0.5 and it is related
C39_Witness ==
    /\ probe.op = "analyze"
    /\ \E k \in 1..Len(probe.log) :
          /\ ~probe.log[k].is_duplicate
          /\ Len(probe.log[k].mentioned_companies) = 1
          /\ probe.log[k].found_keywords = <<K_token_minting>>
          /\ probe.log[k].relevance_score = 5000
          /\ probe.log[k].is_tge_related

\* C40: alert records fit the sink: every alert record of process_articles
\* and of process_tweets carries the fields, and the module every name, that
\* send_tge_alert_email reads while building the batch, so that a non-empty
\* batch given to an enabled notifier with a reachable mail transport is
\* handed to the server and reported as sent.
C40_AlertRecordsFitSink ==
    probe.op = "sink" =>
       \A k \in 1..Len(probe.log) :
          LET c == probe.log[k]
          IN  (probe.enabled /\ c.transport /\ c.news + c.tweets > 0) =>
                 /\ c.sends
                 /\ c.result

=============================================================================
